---- MODULE Spec2Model ----
(***************************************************************************)
(* A model of the SiteApp behaviour layer (src/script.js; the near-copy    *)
(* src/unnamed/part_000 has the same init, teardown, focusAndReveal,       *)
(* addListener and removeAllListeners, and adds the demo page's workflow   *)
(* widget, initDemoGuarded).                                               *)
(*                                                                         *)
(* The program state is gathered in one record (Cur); every function of    *)
(* the source is an operator from a state record to a state record, and    *)
(* every action of the state machine applies one of them to Cur.           *)
(*                                                                         *)
(* JavaScript values are written as strings: "null" is getAttribute's      *)
(* answer for a missing attribute, "undefined" is WeakMap.get's answer for *)
(* a missing key.                                                          *)
(***************************************************************************)
EXTENDS Integers, Sequences, FiniteSets, TLC

VARIABLES
    initialized,    \* state.initialized
    handlers,       \* state.handlers: the ListenerRecords, in registration order
    formDraft,      \* state.formDraft
    opts,           \* SiteApp's effective options
    logLevel,       \* Logger's currentLevel (by name)
    subs,           \* the subscriptions the DOM event targets hold for the
                    \*   listeners of the installation in force
    stale,          \* the subscriptions the targets still hold for listeners
                    \*   of an earlier installation (their removal threw)
    tabindex,       \* the tabindex attribute of every target element
    revealedPrev,   \* _revealedPrevTabIndex (WeakMap)
    revealedSet,    \* _revealedSet (Set)
    timers,         \* pending restore callbacks, in firing order
    nav,            \* the mobile nav's DOM state
    fields,         \* the contact form's field values
    form,           \* the contact form's other DOM state: the fields marked
                    \*   aria-invalid, the success message, and whether the
                    \*   debounce timer of debouncedPersist is pending
    storage,        \* localStorage[opts.contactDraftKey]
    storageOk,      \* FALSE once the localStorage calls throw
    demo,           \* the demo widget: "off" (not a demo page), "loading" (its
                    \*   onReady waits for DOMContentLoaded), "failed" (onReady
                    \*   ran and ended in its catch block)
    page,           \* which widgets' elements the page holds (fixed)
    boot,           \* the auto-init bootstrap: the two global flags, the
                    \*   document's readyState, the callback ensureAutoInit
                    \*   left pending, and history of its init() calls
    scroll,         \* the scroll geometry: the --scroll-offset style hint, the
                    \*   target's position, and the last offset and scroll
                    \*   position the code computed
    last,           \* history: the last call and its outcome
    atCall,         \* history: for an element whose reveal is in progress
                    \*   (focusAndReveal returned normally, no restoration
                    \*   since), the tabindex it had at the call; else "never"
    written         \* history: elements whose tabindex focusAndReveal wrote,
                    \*   not processed by a restoration since

progVars == <<initialized, handlers, formDraft, opts, logLevel, subs, stale,
              tabindex, revealedPrev, revealedSet, timers, nav, fields, form,
              storage, storageOk, demo>>

\* the page, the bootstrap and the scroll geometry: what the SiteApp calls
\* and the widgets' handlers leave alone
env == <<page, boot, scroll>>

vars == <<initialized, handlers, formDraft, opts, logLevel, subs, stale,
          tabindex, revealedPrev, revealedSet, timers, nav, fields, form,
          storage, storageOk, demo, page, boot, scroll, last, atCall, written>>

-----------------------------------------------------------------------------
(* Bounds of the model. *)

\* at most this many restore callbacks are pending at once
MaxTimers == 2

\* at most this many debounced persistDraft calls are pending at once
MaxPersist == 2

\* the elements an in-page anchor can name
Elems == {"e1", "e2"}

\* tabindex values an element can carry ("null": no attribute)
TabVals == {"null", "-1", "3"}

-----------------------------------------------------------------------------
(* Configuration. *)

DEFAULTS ==
    [ enableMobileNav |-> TRUE,
      mobileNavToggleSelector |-> ".nav-toggle",
      enableSmoothScroll |-> TRUE,
      smoothScrollOffset |-> 16,
      enableContactForm |-> TRUE,
      contactFormSelector |-> "#contact-form",
      loggerLevel |-> "info" ]

\* a selector string querySelector rejects with a SyntaxError
BadSelector == "["

\* the arguments init is called with: nothing, option objects (the keys the
\* caller supplies), and values that are not objects (0 and "" are falsy)
InitArgs ==
    << [kind |-> "undefined", truthy |-> FALSE, obj |-> <<>>],
       [kind |-> "object", truthy |-> TRUE,
        obj |-> [loggerLevel |-> "debug", smoothScrollOffset |-> 40,
                 enableMobileNav |-> FALSE]],
       [kind |-> "object", truthy |-> TRUE,
        obj |-> [mobileNavToggleSelector |-> BadSelector]],
       [kind |-> "object", truthy |-> TRUE,
        obj |-> [contactFormSelector |-> BadSelector]],
       [kind |-> "number", truthy |-> TRUE, obj |-> <<>>],
       [kind |-> "number", truthy |-> FALSE, obj |-> <<>>],
       [kind |-> "string", truthy |-> TRUE, obj |-> <<>>] >>

\* Object.assign({}, DEFAULTS, options || {})
mergeOptions(arg) ==
    IF arg.kind = "object"
    THEN [k \in DOMAIN DEFAULTS |->
            IF k \in DOMAIN arg.obj THEN arg.obj[k] ELSE DEFAULTS[k]]
    ELSE DEFAULTS

\* validateOptions: TRUE when it throws the TypeError
validateOptionsThrows(arg) ==
    /\ arg.truthy
    /\ arg.kind # "object"

-----------------------------------------------------------------------------
(* The program state as one record. *)

Cur ==
    [ initialized |-> initialized, handlers |-> handlers,
      formDraft |-> formDraft, opts |-> opts, logLevel |-> logLevel,
      subs |-> subs, stale |-> stale, tabindex |-> tabindex,
      revealedPrev |-> revealedPrev,
      revealedSet |-> revealedSet, timers |-> timers, nav |-> nav,
      fields |-> fields, form |-> form, storage |-> storage,
      storageOk |-> storageOk, demo |-> demo ]

\* the next state is S
Becomes(S) ==
    /\ initialized' = S.initialized
    /\ handlers' = S.handlers
    /\ formDraft' = S.formDraft
    /\ opts' = S.opts
    /\ logLevel' = S.logLevel
    /\ subs' = S.subs
    /\ stale' = S.stale
    /\ tabindex' = S.tabindex
    /\ revealedPrev' = S.revealedPrev
    /\ revealedSet' = S.revealedSet
    /\ timers' = S.timers
    /\ nav' = S.nav
    /\ fields' = S.fields
    /\ form' = S.form
    /\ storage' = S.storage
    /\ storageOk' = S.storageOk
    /\ demo' = S.demo

\* what a call hands back: the state it leaves, and whether an exception
\* leaves the call, and the value it returns
Ret(S) == [s |-> S, exc |-> FALSE, ret |-> "undefined"]
Throw(S) == [s |-> S, exc |-> TRUE, ret |-> "undefined"]
RetVal(S, v) == [s |-> S, exc |-> FALSE, ret |-> v]

-----------------------------------------------------------------------------
(* focusAndReveal and its restore callback. *)

\* where a platform call inside focusAndReveal can throw: nowhere; at the
\* attribute read (line 152); at the attribute write (line 157); after it,
\* at getBoundingClientRect or at the scrollTo fallback (lines 163-167)
RevealFaults == {"none", "getAttribute", "setAttribute", "scroll"}

\* restoreAttr with the removal forgotten: an attribute the primitive added
\* is left in place
restoreAttrNoRemoval(recorded, current) ==
    IF recorded \in {"null", "undefined"}
    THEN current
    ELSE recorded

\* lines 174-183: the attribute the restore callback leaves, from the recorded
\* prior value and the attribute it finds
restoreAttr(recorded, current) ==
    IF recorded \in {"null", "undefined"}
    THEN IF current = "-1" THEN "null" ELSE current
    ELSE recorded

\* restore with line 186 forgotten: the element stays in _revealedSet
restoreKeepsSet(S, el, domFails) ==
    [S EXCEPT !.tabindex[el] = IF domFails THEN @
                               ELSE restoreAttr(S.revealedPrev[el], @),
              !.revealedPrev[el] = "undefined"]

\* restore with lines 185-186 moved inside the try block: a failing DOM call
\* skips them
restoreDeletesInsideTry(S, el, domFails) ==
    IF domFails THEN S
    ELSE [S EXCEPT !.tabindex[el] = restoreAttr(S.revealedPrev[el], @),
                   !.revealedPrev[el] = "undefined",
                   !.revealedSet = @ \ {el}]

\* The restore callback of focusAndReveal, run for element el; domFails: a
\* DOM call of lines 174-183 throws (caught at line 184, attribute as it was)
restore(S, el, domFails) ==
    [S EXCEPT !.tabindex[el] = IF domFails THEN @         \* lines 173-184
                               ELSE restoreAttr(S.revealedPrev[el], @),
              !.revealedPrev[el] = "undefined",           \* line 185
              !.revealedSet = @ \ {el}]                   \* line 186

\* the catch block with line 194 forgotten: only the map entry is deleted
revealCatchMapOnly(S, el) ==
    [S EXCEPT !.revealedPrev[el] = "undefined"]

\* lines 191-195: the catch block of focusAndReveal
revealCatch(S, el) ==
    [S EXCEPT !.revealedPrev[el] = "undefined",
              !.revealedSet = @ \ {el}]

\* focusAndReveal that records the prior value only when the element has no
\* record yet, and writes the attribute and schedules the restore as ever
focusAndRevealRecordsOnce(S, el, fault) ==
    IF el \notin Elems
    THEN Ret(S)
    ELSE
      LET prev == S.tabindex[el]
          S1 == IF el \in S.revealedSet THEN S
                ELSE [S EXCEPT !.revealedPrev[el] = prev,
                               !.revealedSet = @ \cup {el}]
          S2 == IF prev # "-1"
                THEN [S1 EXCEPT !.tabindex[el] = "-1"]
                ELSE S1
          S3 == [S2 EXCEPT !.timers =
                          Append(@, [el |-> el, torn |-> FALSE])]
      IN  IF fault = "getAttribute"
          THEN Ret(revealCatch(S, el))
          ELSE IF fault = "setAttribute" /\ prev # "-1"
          THEN Ret(revealCatch(S1, el))
          ELSE IF fault = "scroll"
          THEN Ret(revealCatch(S2, el))
          ELSE Ret(S3)

\* focusAndReveal that keeps the record of a reveal still in progress instead
\* of overwriting it (lines 153-154 skipped for an element of _revealedSet)
focusAndRevealKeepsFirst(S, el, fault) ==
    IF el \notin Elems
    THEN Ret(S)
    ELSE
      LET prev == S.tabindex[el]
          S1 == IF el \in S.revealedSet THEN S
                ELSE [S EXCEPT !.revealedPrev[el] = prev,
                               !.revealedSet = @ \cup {el}]
          S2 == IF prev # "-1"
                THEN [S1 EXCEPT !.tabindex[el] = "-1"]
                ELSE S1
          S3 == [S2 EXCEPT !.timers =
                          Append(@, [el |-> el, torn |-> FALSE])]
      IN  IF fault = "getAttribute"
          THEN Ret(revealCatch(S, el))
          ELSE IF fault = "setAttribute" /\ prev # "-1"
          THEN Ret(revealCatch(S1, el))
          ELSE IF fault = "scroll"
          THEN Ret(revealCatch(S2, el))
          ELSE Ret(S3)

\* focusAndReveal(el, offsetPx), with the platform failing as fault says
focusAndReveal(S, el, fault) ==
    IF el \notin Elems
    THEN Ret(S)                                          \* line 150
    ELSE
      LET prev == S.tabindex[el]                         \* line 152
          S1 == [S EXCEPT !.revealedPrev[el] = prev,     \* line 153
                          !.revealedSet = @ \cup {el}]   \* line 154
          S2 == IF prev # "-1"                           \* lines 156-158
                THEN [S1 EXCEPT !.tabindex[el] = "-1"]
                ELSE S1
          S3 == [S2 EXCEPT !.timers =                    \* line 190
                          Append(@, [el |-> el, torn |-> FALSE])]
      IN  IF fault = "getAttribute"
          THEN Ret(revealCatch(S, el))
          ELSE IF fault = "setAttribute" /\ prev # "-1"
          THEN Ret(revealCatch(S1, el))
          ELSE IF fault = "scroll"
          THEN Ret(revealCatch(S2, el))
          ELSE Ret(S3)

-----------------------------------------------------------------------------
(* The listener registry. *)

Sub(target, type, listener) ==
    [target |-> target, type |-> type, listener |-> listener]

\* addListener with line 241 forgotten: the subscription has no record
addListenerNoRecord(S, target, type, listener, o) ==
    IF target = "null"
    THEN S
    ELSE [S EXCEPT !.subs = @ \cup {Sub(target, type, listener)}]

addListener(S, target, type, listener, o) ==
    IF target = "null"
    THEN S
    ELSE [S EXCEPT !.subs = @ \cup {Sub(target, type, listener)},
                   !.handlers = Append(@, [target |-> target, type |-> type,
                                           listener |-> listener, opts |-> o])]

\* the subscriptions the records of hs name
SubsOf(hs) ==
    { Sub(hs[i].target, hs[i].type, hs[i].listener) : i \in DOMAIN hs }

\* the sets of targets whose removeEventListener throws during one
\* removeAllListeners (the subscription then stays on the target)
RemoveFaults == {{}, {"toggle"}}

\* the subscriptions of the records of hs whose target is in ts
SubsOn(hs, ts) ==
    { Sub(hs[i].target, hs[i].type, hs[i].listener) :
        i \in { j \in DOMAIN hs : hs[j].target \in ts } }

\* removeAllListeners without line 255: the listeners are removed, their
\* records stay
removeAllListenersKeepsRegistry(S, rmFails) ==
    [S EXCEPT !.subs = @ \ SubsOn(S.handlers,
                                  { S.handlers[i].target :
                                      i \in DOMAIN S.handlers } \ rmFails)]

\* removeAllListeners that only empties the registry
removeAllListenersRegistryOnly(S, rmFails) ==
    [S EXCEPT !.handlers = <<>>]

\* removeAllListeners without the try of lines 249-253: the first failing
\* removal ends the loop, and line 255 is not reached
removeAllListenersNoTry(S, rmFails) ==
    LET bad == { i \in DOMAIN S.handlers : S.handlers[i].target \in rmFails }
        first == CHOOSE i \in bad : \A j \in bad : i <= j
    IN  IF bad = {}
        THEN [S EXCEPT !.subs = @ \ SubsOf(S.handlers), !.handlers = <<>>]
        ELSE [S EXCEPT !.subs = @ \ SubsOf(SubSeq(S.handlers, 1, first - 1))]

\* removeAllListeners(); rmFails: the targets whose removeEventListener throws
removeAllListeners(S, rmFails) ==
    [S EXCEPT !.subs = @ \ SubsOf(S.handlers),            \* lines 248-254
              !.stale = @ \cup SubsOn(S.handlers, rmFails),
              !.handlers = <<>>]                           \* line 255

-----------------------------------------------------------------------------
(* teardown. *)

\* teardownAttr that removes the attribute whatever was recorded
teardownAttrAlwaysRemoves(prev, current) ==
    "null"

\* lines 591-598: the attribute teardown leaves on an element of _revealedSet
teardownAttr(prev, current) ==
    IF prev \in {"null", "undefined"}
    THEN IF current = "-1" THEN "null" ELSE current
    ELSE prev

\* the restoration loop of teardown, lines 589-602; domFails: the elements
\* for which a DOM call of lines 591-598 throws (caught at line 599)
teardownReveals(S, domFails) ==
    [S EXCEPT
       !.tabindex = [e \in Elems |->
           IF e \in S.revealedSet \ domFails
           THEN teardownAttr(S.revealedPrev[e], S.tabindex[e])
           ELSE S.tabindex[e]],
       !.revealedPrev = [e \in Elems |->
           IF e \in S.revealedSet THEN "undefined" ELSE S.revealedPrev[e]],
       !.revealedSet = {}]

\* teardown with line 607 forgotten: the flag stays set
teardownNoReset(S, rmFails, domFails) ==
    IF ~S.initialized
    THEN Ret(S)
    ELSE Ret(teardownReveals(removeAllListeners(S, rmFails), domFails))

\* teardown that unsubscribes the last record only on each call, and keeps
\* the flag set while records remain
teardownStepwise(S, rmFails, domFails) ==
    IF ~S.initialized
    THEN Ret(S)
    ELSE
      LET n == Len(S.handlers)
          S1 == IF n = 0 THEN S
                ELSE [S EXCEPT !.subs = @ \ SubsOf(<<S.handlers[n]>>),
                               !.handlers = SubSeq(@, 1, n - 1)]
          S2 == teardownReveals(S1, domFails)
      IN  Ret([S2 EXCEPT !.initialized = (S1.handlers # <<>>)])

\* the steps with the flag cleared first and the listeners removed last
teardownStepsFlagFirst(S, rmFails, domFails) ==
    LET S1 == [S EXCEPT !.initialized = FALSE]
        S2 == teardownReveals(S1, domFails)
        S3 == removeAllListeners(S2, rmFails)
    IN  <<S, S1, S2, S3>>

\* the states teardown() passes through on an initialized system: at the
\* call, after line 585, after lines 588-605, after line 607
teardownSteps(S, rmFails, domFails) ==
    LET S1 == removeAllListeners(S, rmFails)              \* line 585
        S2 == teardownReveals(S1, domFails)               \* lines 588-605
        S3 == [S2 EXCEPT !.initialized = FALSE]           \* line 607
    IN  <<S, S1, S2, S3>>

teardown(S, rmFails, domFails) ==
    IF ~S.initialized
    THEN Ret(S)                                           \* lines 581-584
    ELSE Ret(teardownSteps(S, rmFails, domFails)[4])      \* lines 585-608

-----------------------------------------------------------------------------
(* The mobile nav widget. *)

openNav(S) ==
    [S EXCEPT !.nav.bodyOpen = TRUE, !.nav.toggleExpanded = "true",
              !.nav.navExpanded = "true", !.nav.isOpen = TRUE]

\* closeNav that leaves the nav's is-open class in place
closeNavKeepsClass(S) ==
    [S EXCEPT !.nav.bodyOpen = FALSE, !.nav.toggleExpanded = "false",
              !.nav.navExpanded = "false"]

closeNav(S) ==
    [S EXCEPT !.nav.bodyOpen = FALSE, !.nav.toggleExpanded = "false",
              !.nav.navExpanded = "false", !.nav.isOpen = FALSE]

\* toggleNav that opens whatever the toggle's aria-expanded says
toggleNavAlwaysOpens(S) == openNav(S)

toggleNav(S) ==
    IF S.nav.toggleExpanded = "true" THEN closeNav(S) ELSE openNav(S)

onDocumentKey(S, key) ==
    IF key = "Escape" /\ S.nav.bodyOpen THEN closeNav(S) ELSE S

\* where is "toggle", "nav" or "outside": what the event's path goes through
onDocumentClick(S, where) ==
    IF ~S.nav.bodyOpen THEN S
    ELSE IF where \in {"nav", "toggle"} THEN S
    ELSE closeNav(S)

setupMobileNav(S) ==
    IF ~S.opts.enableMobileNav THEN Ret(S)                \* line 262
    ELSE IF S.opts.mobileNavToggleSelector = BadSelector
    THEN Throw(S)                                         \* line 263
    ELSE IF ~page.toggle \/ ~page.nav THEN Ret(S)         \* lines 267-270
    ELSE
      LET S1 == [S EXCEPT                                 \* lines 273-277
                   !.nav.navId = IF @ = "" THEN "main-nav-generated" ELSE @,
                   !.nav.ariaControls =
                       IF S.nav.navId = "" THEN "main-nav-generated"
                       ELSE S.nav.navId,
                   !.nav.toggleExpanded = IF @ = "null" THEN "false" ELSE @,
                   !.nav.navExpanded = IF @ = "null" THEN "false" ELSE @]
          S2 == addListener(S1, "toggle", "click", "toggleClick", "undefined")
          S3 == addListener(S2, "toggle", "touchstart", "toggleTouchstart",
                            "passive")
          S4 == addListener(S3, "document", "keydown", "onDocumentKey", "false")
          S5 == addListener(S4, "document", "click", "onDocumentClick", "false")
      IN  Ret(S5)

-----------------------------------------------------------------------------
(* The smooth scroll widget. *)

\* where a platform call of handleAnchorClick itself can throw: at
\* getBoundingClientRect (line 373); at window.scrollTo in both its call
\* forms (lines 375 and 379)
HandlerFaults == {"rect", "scrollTo"}

\* handleAnchorClick for a primary-button click without modifier keys on an
\* anchor whose href is "#" followed by the id of el; ret tells whether the
\* handler called ev.preventDefault()
handleAnchorClick(S, el, defaultPrevented, fault) ==
    IF defaultPrevented THEN Ret(S)                       \* line 347
    ELSE IF el \notin Elems THEN Ret(S)                   \* line 370
    ELSE IF fault \in HandlerFaults                       \* lines 371, 373, 379
    THEN [Throw(S) EXCEPT !.ret = "defaultPrevented"]
    ELSE [focusAndReveal(S, el, fault)                    \* lines 371-381
            EXCEPT !.ret = "defaultPrevented"]

setupSmoothScroll(S) ==
    IF ~S.opts.enableSmoothScroll THEN Ret(S)             \* line 343
    ELSE Ret(addListener(S, "document", "click", "handleAnchorClick", "false"))

-----------------------------------------------------------------------------
(* The contact form widget. *)

\* getItem's answer when the key holds nothing; state.formDraft when null
NoDraft == [present |-> FALSE, name |-> "", email |-> "", message |-> ""]

\* a draft an earlier visit left in localStorage
SavedDraft ==
    [present |-> TRUE, name |-> "Ann", email |-> "ann@example.com",
     message |-> ""]

\* the values the model has the user type into the fields
FieldInputs ==
    [name |-> {"", " Ann "},
     email |-> {"", "ann@example.com", "ann@"},
     message |-> {"", "Hi"}]

\* the characters of the strings the fields can hold
Chars(v) ==
    CASE v = "" -> <<>>
      [] v = "Ann" -> <<"A", "n", "n">>
      [] v = " Ann " -> <<" ", "A", "n", "n", " ">>
      [] v = "ann@example.com" ->
           <<"a", "n", "n", "@", "e", "x", "a", "m", "p", "l", "e", ".",
             "c", "o", "m">>
      [] v = "ann@" -> <<"a", "n", "n", "@">>
      [] v = "Hi" -> <<"H", "i">>

\* String.prototype.trim, on the characters
trim(cs) ==
    LET inked == { i \in DOMAIN cs : cs[i] # " " }
    IN  IF inked = {} THEN <<>>
        ELSE SubSeq(cs, CHOOSE i \in inked : \A j \in inked : i <= j,
                        CHOOSE i \in inked : \A j \in inked : j <= i)

\* isValidEmail, lines 202-207: /^[^\s@]+@[^\s@]+\.[^\s@]+$/ on the trimmed
\* value
isValidEmail(cs) ==
    LET t == trim(cs)
        plain(a, b) == a <= b /\ \A k \in a..b : t[k] \notin {" ", "@"}
    IN  \E i, j \in DOMAIN t :
          /\ i < j
          /\ t[i] = "@"
          /\ t[j] = "."
          /\ plain(1, i - 1)
          /\ plain(i + 1, j - 1)
          /\ plain(j + 1, Len(t))

\* validateForm, lines 431-443: the fields it reports an error for
validateForm(S) ==
    { f \in DOMAIN S.fields :
        \/ trim(Chars(S.fields[f])) = <<>>                \* lines 437-440
        \/ f = "email" /\ ~isValidEmail(Chars(S.fields[f])) } \* line 439

\* the draft persistDraft builds (its ts member is left out)
DraftOf(S) ==
    [present |-> TRUE, name |-> S.fields.name, email |-> S.fields.email,
     message |-> S.fields.message]

\* persistDraft that stores the trimmed name
persistDraftTrimmed(S) ==
    LET draft == [DraftOf(S) EXCEPT
                    !.name = IF @ = " Ann " THEN "Ann" ELSE @]
    IN  IF ~S.storageOk THEN S
        ELSE [S EXCEPT !.storage = draft, !.formDraft = draft]

\* persistDraft, lines 462-476; setItem throws while storageOk is FALSE
persistDraft(S) ==
    IF ~S.storageOk THEN S                                \* lines 469, 473
    ELSE [S EXCEPT !.storage = DraftOf(S),                \* line 469
                   !.formDraft = DraftOf(S)]              \* line 470

\* onInput whose debouncedPersist sets a timer without clearing the one
\* that is pending
onInputNoClear(S, f) ==
    [S EXCEPT !.form.invalid = @ \ {f},
              !.form.orphans = IF S.form.pending THEN @ + 1 ELSE @,
              !.form.pending = TRUE]

\* onInput for an event whose target is the field f: clearError, then
\* debouncedPersist clears the closure's timer and sets it anew
onInput(S, f) ==
    [S EXCEPT !.form.invalid = @ \ {f},                   \* line 500
              !.form.pending = TRUE]                      \* line 501

\* handleSubmit that empties the cache before it asks localStorage
handleSubmitClearsCacheFirst(S) ==
    LET errors == validateForm(S)
    IN  IF errors # {}
        THEN RetVal([S EXCEPT !.form.invalid = errors], "defaultPrevented")
        ELSE RetVal([S EXCEPT
                       !.form.invalid = {},
                       !.formDraft = NoDraft,
                       !.storage = IF S.storageOk THEN NoDraft ELSE @,
                       !.form.success = TRUE,
                       !.fields = [f \in DOMAIN S.fields |-> ""]],
                    "defaultPrevented")

\* handleSubmit that removes the stored draft before it validates
handleSubmitRemovesFirst(S) ==
    LET S0 == IF S.storageOk
              THEN [S EXCEPT !.storage = NoDraft, !.formDraft = NoDraft]
              ELSE S
        errors == validateForm(S)
    IN  IF errors # {}
        THEN RetVal([S0 EXCEPT !.form.invalid = errors], "defaultPrevented")
        ELSE RetVal([S0 EXCEPT !.form.invalid = {},
                               !.form.success = TRUE,
                               !.fields = [f \in DOMAIN S.fields |-> ""]],
                    "defaultPrevented")

\* handleSubmit, lines 504-532; ret tells whether it called
\* ev.preventDefault(); removeItem throws while storageOk is FALSE
handleSubmit(S) ==
    LET S1 == [S EXCEPT !.form.invalid = {}]              \* line 506
        errors == validateForm(S1)                        \* line 507
    IN  IF errors # {}
        THEN RetVal([S1 EXCEPT !.form.invalid = errors],  \* lines 508-514
                    "defaultPrevented")
        ELSE
          LET S2 == IF S1.storageOk                       \* lines 517-523
                    THEN [S1 EXCEPT !.storage = NoDraft, !.formDraft = NoDraft]
                    ELSE S1
              S3 == [S2 EXCEPT !.form.success = TRUE]     \* line 525
              S4 == [S3 EXCEPT                            \* lines 527-529
                       !.fields = [f \in DOMAIN S.fields |-> ""]]
          IN  RetVal(S4, "defaultPrevented")

\* restoreDraft, lines 478-492; getItem throws while storageOk is FALSE
restoreDraft(S) ==
    IF ~S.storageOk THEN S                                \* lines 480, 489
    ELSE IF ~S.storage.present THEN S                     \* lines 480-481
    ELSE
      LET draft == S.storage
      IN  [S EXCEPT                                       \* lines 484-487
             !.fields = [f \in DOMAIN S.fields |->
                           IF draft[f] # "" THEN draft[f] ELSE S.fields[f]],
             !.formDraft = draft]

setupContactForm(S) ==
    IF ~S.opts.enableContactForm THEN Ret(S)              \* line 392
    ELSE IF S.opts.contactFormSelector = BadSelector
    THEN Throw(S)                                         \* line 393
    ELSE IF ~page.form THEN Ret(S)                        \* lines 394-397
    ELSE
      LET S0 == [S EXCEPT                                 \* line 494
                   !.form.orphans = IF S.form.pending THEN @ + 1 ELSE @,
                   !.form.pending = FALSE]
          S1 == restoreDraft(S0)                          \* line 535
          S2 == addListener(S1, "form", "input", "onInput", "false")
          S3 == addListener(S2, "form", "change", "onInput", "false")
          S4 == addListener(S3, "form", "submit", "handleSubmit", "false")
      IN  Ret(S4)

-----------------------------------------------------------------------------
(* The demo page's workflow widget (src/unnamed/part_000, lines 741-983).    *)
(* initDemoGuarded is a sibling of the SiteApp closure, so the addListener   *)
(* of lines 239-243 is not in its scope.                                     *)

\* addDemoListeners, lines 878-928: its first statement that runs calls
\* addListener, a name that resolves to nothing there (ReferenceError)
addDemoListeners(S) == Throw(S)

\* the subscriptions the demo widget itself makes on its targets: line 971,
\* document.addEventListener('DOMContentLoaded', onReady, {once: true})
demoSubs(S) ==
    IF S.demo = "loading"
    THEN {Sub("document", "DOMContentLoaded", "demoOnReady")}
    ELSE {}

\* onReady of initDemo, lines 755-968, on a page with workflow steps; the
\* try block it runs in ends at the first exception (lines 965-967)
demoOnReady(S) ==
    LET r == addDemoListeners(S)                          \* line 876
    IN  IF r.exc
        THEN Ret([S EXCEPT !.demo = "failed"])            \* lines 965-967
        ELSE Ret([r.s EXCEPT !.demo = "ready"])           \* lines 931-964

-----------------------------------------------------------------------------
(* init. *)

LogLevels == {"debug", "info", "warn", "error", "silent"}

\* installWidgets whose catch block undoes the listeners registered before
\* the exception
installWidgetsRollsBack(S) ==
    LET r1 == setupMobileNav(S)
        r2 == setupSmoothScroll(r1.s)
        r3 == setupContactForm(r2.s)
    IN  IF r1.exc \/ r2.exc \/ r3.exc THEN S
        ELSE r3.s

\* installWidgets with the contact form set up first
installWidgetsFormFirst(S) ==
    LET r1 == setupContactForm(S)
        r2 == setupMobileNav(r1.s)
        r3 == setupSmoothScroll(r2.s)
    IN  IF r1.exc THEN r1.s
        ELSE IF r2.exc THEN r2.s
        ELSE r3.s

\* lines 566-572: the three installers inside one try block
installWidgets(S) ==
    LET r1 == setupMobileNav(S)
        r2 == setupSmoothScroll(r1.s)
        r3 == setupContactForm(r2.s)
    IN  IF r1.exc THEN r1.s
        ELSE IF r2.exc THEN r2.s
        ELSE r3.s

\* init that merges the options (line 560) before it validates them
initMergesFirst(S, arg) ==
    LET o == mergeOptions(arg)
        S1 == [S EXCEPT !.opts = o,
                        !.logLevel = IF o.loggerLevel \in LogLevels
                                     THEN o.loggerLevel ELSE @]
    IN  IF S.initialized THEN RetVal(S, "SiteApp")
        ELSE IF validateOptionsThrows(arg) THEN Throw(S1)
        ELSE RetVal([installWidgets(S1) EXCEPT !.initialized = TRUE],
                    "SiteApp")

\* init with the guard of lines 548-551 forgotten
initNoGuard(S, arg) ==
    IF validateOptionsThrows(arg)
    THEN Throw(S)
    ELSE
      LET o == mergeOptions(arg)
          S1 == [S EXCEPT !.opts = o,
                          !.logLevel = IF o.loggerLevel \in LogLevels
                                       THEN o.loggerLevel ELSE @]
      IN  RetVal([installWidgets(S1) EXCEPT !.initialized = TRUE], "SiteApp")

\* init(options); ret is what the call returns
init(S, arg) ==
    IF S.initialized
    THEN RetVal(S, "SiteApp")                             \* lines 548-551
    ELSE IF validateOptionsThrows(arg)
    THEN Throw(S)                                         \* lines 553-558
    ELSE
      LET o == mergeOptions(arg)                          \* line 560
          S1 == [S EXCEPT !.opts = o,
                          !.logLevel =                    \* line 562
                              IF o.loggerLevel \in LogLevels
                              THEN o.loggerLevel ELSE @]
          S2 == installWidgets(S1)                        \* lines 566-572
      IN  RetVal([S2 EXCEPT !.initialized = TRUE], "SiteApp") \* lines 575-577

-----------------------------------------------------------------------------
(* Event dispatch: the listeners a target holds are the ones in subs, and   *)
(* the document's run after the target's own (bubbling), in the order they  *)
(* were added.                                                              *)

Subscribed(S, target, type, listener) ==
    Sub(target, type, listener) \in S.subs

\* a primary-button click without modifiers on an anchor with href "#el",
\* the anchor being inside the nav or outside it
dispatchAnchorClick(S, el, where, fault) ==
    LET S1 == IF Subscribed(S, "document", "click", "onDocumentClick")
              THEN onDocumentClick(S, where) ELSE S
    IN  IF Subscribed(S, "document", "click", "handleAnchorClick")
        THEN handleAnchorClick(S1, el, FALSE, fault)
        ELSE Ret(S1)

\* a click on the nav toggle: lines 325-328, then the document's listeners
\* (handleAnchorClick finds the event default-prevented, or no anchor)
dispatchToggleClick(S) ==
    LET S0 == IF Sub("toggle", "click", "toggleClick") \in S.stale
              THEN toggleNav(S) ELSE S
        S1 == IF Subscribed(S, "toggle", "click", "toggleClick")
              THEN toggleNav(S0) ELSE S0
    IN  IF Subscribed(S, "document", "click", "onDocumentClick")
        THEN onDocumentClick(S1, "toggle") ELSE S1

\* a click on something that is neither the toggle nor an anchor
dispatchOtherClick(S, where) ==
    IF Subscribed(S, "document", "click", "onDocumentClick")
    THEN onDocumentClick(S, where) ELSE S

dispatchKeydown(S, key) ==
    IF Subscribed(S, "document", "keydown", "onDocumentKey")
    THEN onDocumentKey(S, key) ELSE S

-----------------------------------------------------------------------------
(* The state machine. *)

\* the pages the script is loaded into: which widgets' elements they hold,
\* and what an earlier visit left in localStorage
Pages ==
    { [toggle |-> TRUE, nav |-> TRUE, form |-> TRUE, stored |-> SavedDraft,
       demo |-> FALSE],
      [toggle |-> TRUE, nav |-> FALSE, form |-> FALSE, stored |-> NoDraft,
       demo |-> TRUE] }

\* the tabindex attributes the page's markup gives the anchor targets
Markups ==
    { m \in [Elems -> TabVals] : m["e2"] = "null" }

\* a click event on something that is no link
NoEvent ==
    [defaultPrevented |-> FALSE, button |-> "0", modifier |-> "none",
     onLink |-> FALSE, href |-> <<>>, smooth |-> "undefined",
     urlThrows |-> FALSE]

NoCall ==
    [op |-> "load", el |-> "none", wasInit |-> FALSE, exc |-> FALSE,
     ret |-> "undefined", fault |-> "none", again |-> FALSE,
     prior |-> [e \in Elems |-> "never"], failed |-> {}, arg |-> "none",
     ev |-> NoEvent]

\* the form as the markup gives it: no field marked invalid, no success
\* message, no debounce timer pending (pending: the timer of the
\* debouncedPersist in force; orphans: timers of the debouncedPersist of
\* earlier installations)
NoForm ==
    [invalid |-> {}, success |-> FALSE, pending |-> FALSE, orphans |-> 0]

\* the bootstrap of a page that sets __SITEAPP_NO_AUTO_INIT and calls init
\* itself
NoBoot ==
    [noAutoInit |-> TRUE, enableTests |-> FALSE, readyState |-> "complete",
     fault |-> FALSE, pending |-> "none", calls |-> 0, early |-> FALSE,
     arg |-> "none"]

\* a page without a --scroll-offset style hint, scrolled to the top, on which
\* no offset was computed yet
NoScroll ==
    [file |-> "script.js", hint |-> <<>>, styleThrows |-> FALSE, rectTop |-> 0,
     pageY |-> 0, op |-> "none", fallback |-> [type |-> "undefined", val |-> 0],
     offset |-> 0, first |-> 0, top |-> 0]

\* the program and the page at module load
InitProg ==
    /\ initialized = FALSE
    /\ handlers = <<>>
    /\ formDraft = NoDraft
    /\ opts = DEFAULTS
    /\ logLevel = DEFAULTS.loggerLevel
    /\ subs = {}
    /\ stale = {}
    /\ tabindex \in Markups
    /\ revealedPrev = [e \in Elems |-> "undefined"]
    /\ revealedSet = {}
    /\ timers = <<>>
    /\ page \in Pages
    /\ nav = [bodyOpen |-> FALSE, isOpen |-> FALSE, toggleExpanded |-> "null",
              navExpanded |-> "null", ariaControls |-> "null", navId |-> ""]
    /\ fields = [name |-> "", email |-> "", message |-> ""]
    /\ form = NoForm
    /\ storage = page.stored
    /\ demo = IF page.demo THEN "loading" ELSE "off"
    /\ last = NoCall
    /\ atCall = [e \in Elems |-> "never"]
    /\ written = {}

Init ==
    /\ InitProg
    /\ storageOk = TRUE
    /\ boot = NoBoot
    /\ scroll = NoScroll

\* SiteApp.init(InitArgs[i]).  History: the kind of argument of a call that
\* found the system uninitialized.
CallInit(i) ==
    LET r == init(Cur, InitArgs[i])
    IN  /\ Becomes(r.s)
        /\ last' = [NoCall EXCEPT !.op = "init", !.wasInit = initialized,
                                  !.exc = r.exc, !.ret = r.ret,
                                  !.again = (last.op = "init"),
                                  !.arg = IF initialized THEN "none"
                                          ELSE InitArgs[i].kind]
        /\ UNCHANGED <<env, atCall, written>>

\* SiteApp.teardown(), with the platform failing as rmFails and domFails
\* say (a removal fails in at most one teardown of a run).  History: the
\* restore callbacks still pending for the elements it restores are marked
\* torn, and the reveals in progress end.
CallTeardown(rmFails, domFails) ==
    LET r == teardown(Cur, rmFails, domFails)
    IN  /\ rmFails # {} =>
              /\ initialized
              /\ stale = {}
              /\ \E i \in DOMAIN handlers : handlers[i].target \in rmFails
        /\ domFails # {} => initialized
        /\ domFails \subseteq revealedSet
        /\ Becomes([r.s EXCEPT !.timers =
                      [i \in DOMAIN r.s.timers |->
                         IF initialized /\ atCall[r.s.timers[i].el] # "never"
                         THEN [r.s.timers[i] EXCEPT !.torn = TRUE]
                         ELSE r.s.timers[i]]])
        /\ last' = [NoCall EXCEPT !.op = "teardown", !.wasInit = initialized,
                                  !.exc = r.exc, !.ret = r.ret,
                                  !.again = (last.op = "teardown"),
                                  !.prior = IF initialized THEN atCall ELSE @,
                                  !.failed = domFails,
                                  !.fault = IF rmFails = {} THEN "none"
                                            ELSE "removeEventListener"]
        /\ atCall' = IF initialized THEN [e \in Elems |-> "never"] ELSE atCall
        /\ written' = IF initialized THEN {} ELSE written
        /\ UNCHANGED env

\* The user clicks an in-page anchor that names el.  History: when the
\* handler runs it calls focusAndReveal(el); a call that returns normally
\* begins a reveal of el, a call in which a step throws ends it.
AnchorClicked(el, where, fault) ==
    LET r == dispatchAnchorClick(Cur, el, where, fault)
        ran == /\ Subscribed(Cur, "document", "click", "handleAnchorClick")
               /\ fault \notin HandlerFaults
    IN  /\ Len(timers) < MaxTimers
        /\ fault = "setAttribute" => tabindex[el] # "-1"
        /\ fault # "none" =>
              Subscribed(Cur, "document", "click", "handleAnchorClick")
        /\ Becomes(r.s)
        /\ last' = [NoCall EXCEPT !.op = IF ran THEN "reveal" ELSE "event",
                                  !.el = el, !.exc = r.exc, !.fault = fault,
                                  !.ret = r.ret,
                                  !.again = ran /\ el \in revealedSet]
        /\ atCall' = IF ~ran THEN atCall
                     ELSE IF fault = "none"
                     THEN [atCall EXCEPT ![el] = tabindex[el]]
                     ELSE [atCall EXCEPT ![el] = "never"]
        /\ written' = IF r.s.tabindex[el] # tabindex[el]
                      THEN written \cup {el} ELSE written

\* the click, the scroll position not being observed
ClickAnchor(el, where, fault) ==
    /\ AnchorClicked(el, where, fault)
    /\ UNCHANGED env

\* the user clicks the nav toggle
ClickToggle ==
    /\ page.toggle
    /\ Becomes(dispatchToggleClick(Cur))
    /\ last' = [NoCall EXCEPT !.op = "event"]
    /\ UNCHANGED <<env, atCall, written>>

\* the user clicks something else, inside the nav or outside it
ClickOther(where) ==
    /\ where = "nav" => page.nav
    /\ Becomes(dispatchOtherClick(Cur, where))
    /\ last' = [NoCall EXCEPT !.op = "event"]
    /\ UNCHANGED <<env, atCall, written>>

\* the user presses a key
Keydown(key) ==
    /\ Becomes(dispatchKeydown(Cur, key))
    /\ last' = [NoCall EXCEPT !.op = "event"]
    /\ UNCHANGED <<env, atCall, written>>

\* DOMContentLoaded on the demo page: the demo widget's onReady runs
DemoReady ==
    LET r == demoOnReady(Cur)
    IN  /\ demo = "loading"
        /\ Becomes(r.s)
        /\ last' = [NoCall EXCEPT !.op = "demoReady", !.exc = r.exc]
        /\ UNCHANGED <<env, atCall, written>>

\* The oldest pending restore callback runs (all have the same delay), its
\* DOM calls failing or not.  History: it ends the reveal of its element;
\* whether a teardown has run since it was scheduled (fault = "torn"); and
\* whether it is the second of two callbacks of one element that ran one
\* right after the other, no teardown since either was scheduled, the first
\* having ended, with its DOM calls succeeding, a reveal whose call found
\* the attribute at "-1", as a call on an element under reveal does (again).
TimerFires(domFails) ==
    /\ timers # <<>>
    /\ LET t == Head(timers)
       IN  /\ Becomes(restore([Cur EXCEPT !.timers = Tail(@)], t.el, domFails))
           /\ last' = [NoCall EXCEPT !.op = "timer", !.el = t.el,
                                     !.prior[t.el] = atCall[t.el],
                                     !.failed = IF domFails THEN {t.el} ELSE {},
                                     !.fault = IF t.torn THEN "torn" ELSE "none",
                                     !.again = /\ last.op = "timer"
                                               /\ last.el = t.el
                                               /\ last.fault = "none"
                                               /\ last.failed = {}
                                               /\ last.prior[t.el] = "-1"
                                               /\ ~t.torn]
           /\ atCall' = [atCall EXCEPT ![t.el] = "never"]
           /\ written' = written \ {t.el}
    /\ UNCHANGED env

\* The system on a platform that carries out every listener removal: the
\* lifecycle, the widgets' events, reveals and their restoration.
Next ==
    \/ \E i \in DOMAIN InitArgs : CallInit(i)
    \/ \E domFails \in SUBSET Elems : CallTeardown({}, domFails)
    \/ \E el \in Elems, where \in {"nav", "outside"}, fault \in RevealFaults :
         ClickAnchor(el, where, fault)
    \/ ClickToggle
    \/ \E where \in {"nav", "outside"} : ClickOther(where)
    \/ \E key \in {"Escape", "Enter"} : Keydown(key)
    \/ \E domFails \in BOOLEAN : TimerFires(domFails)

Spec == Init /\ [][Next]_vars

\* Installation and removal of the widgets' listeners on a platform whose
\* calls can fail: removals that throw, anchor clicks whose handler meets a
\* failing platform call, and the demo page's widget.
NextInstall ==
    \/ \E i \in DOMAIN InitArgs : CallInit(i)
    \/ \E rmFails \in RemoveFaults : CallTeardown(rmFails, {})
    \/ \E el \in Elems, where \in {"nav", "outside"}, fault \in HandlerFaults :
         ClickAnchor(el, where, fault)
    \/ ClickToggle
    \/ \E where \in {"nav", "outside"} : ClickOther(where)
    \/ \E key \in {"Escape", "Enter"} : Keydown(key)
    \/ DemoReady

SpecInstall == Init /\ [][NextInstall]_vars

\* Reveals and their restoration alone: the lifecycle, anchor clicks whose
\* focusAndReveal meets a failing DOM call or not, and the restore callbacks.
InitReveal ==
    /\ Init
    /\ ~page.form

NextReveal ==
    \/ CallInit(1)
    \/ \E domFails \in SUBSET Elems : CallTeardown({}, domFails)
    \/ \E el \in Elems, fault \in RevealFaults : ClickAnchor(el, "outside", fault)
    \/ \E domFails \in BOOLEAN : TimerFires(domFails)

SpecReveal == InitReveal /\ [][NextReveal]_vars

\* the browser runs every timer that is due (setTimeout, line 190)
SpecRevealFair ==
    /\ SpecReveal
    /\ WF_vars(\E domFails \in BOOLEAN : TimerFires(domFails))

-----------------------------------------------------------------------------
(* The auto-init bootstrap (ensureAutoInit, lines 619-653, called at line   *)
(* 662 when the module is loaded).                                          *)

\* ensureAutoInit that never looks at document.readyState and always takes
\* the zero-delay callback
ensureAutoInitAlwaysDefers(b, fault) ==
    IF b.noAutoInit \/ b.enableTests THEN [b EXCEPT !.pending = "none"]
    ELSE [b EXCEPT !.pending = "timeout", !.fault = fault]

\* ensureAutoInit on the bootstrap b: which callback it leaves pending.
\* fault: a platform call of lines 639-644 throws.
ensureAutoInit(b, fault) ==
    IF b.noAutoInit THEN [b EXCEPT !.pending = "none"]    \* lines 622-625
    ELSE IF b.enableTests
    THEN [b EXCEPT !.pending = "none"]                    \* lines 627-630
    ELSE IF fault
    THEN [b EXCEPT !.pending = "fallback", !.fault = TRUE] \* lines 645-650
    ELSE IF b.readyState = "loading"
    THEN [b EXCEPT !.pending = "DOMContentLoaded"]        \* lines 639-640
    ELSE [b EXCEPT !.pending = "timeout"]                 \* lines 641-644

\* a flag that makes ensureAutoInit return at once is set
optedOut(b) == b.noAutoInit \/ b.enableTests

\* onReady (lines 632-637), and the fallback callback of lines 647-649:
\* SiteApp.init() with no argument, an exception of which is caught
onReady(S) ==
    LET r == init(S, InitArgs[1])
    IN  Ret(r.s)

\* the bootstraps a page can load the module with
Boots ==
    { ensureAutoInit([NoBoot EXCEPT !.noAutoInit = n, !.enableTests = t,
                                    !.readyState = rs], f) :
        n \in BOOLEAN, t \in BOOLEAN, rs \in {"loading", "complete"},
        f \in BOOLEAN }

InitBoot ==
    /\ InitProg
    /\ tabindex = [e \in Elems |-> "null"]
    /\ storageOk = TRUE
    /\ boot \in Boots
    /\ scroll = NoScroll

\* history of an automatic init() call
bootCalled(b) ==
    [b EXCEPT !.pending = "none", !.calls = @ + 1,
              !.early = @ \/ (b.readyState = "loading"),
              !.arg = InitArgs[1].kind]

\* The document finishes parsing (its readyState is "interactive" from then
\* on): DOMContentLoaded is dispatched to the document's listeners in the order they were added (ensureAutoInit's, a
\* once-listener, then the demo widget's).
DomContentLoaded ==
    LET r1 == IF boot.pending = "DOMContentLoaded" THEN onReady(Cur)
              ELSE Ret(Cur)
        r2 == IF demo = "loading" THEN demoOnReady(r1.s) ELSE r1
    IN  /\ boot.readyState = "loading"
        /\ Becomes(r2.s)
        /\ boot' = LET b == [boot EXCEPT !.readyState = "interactive"]
                   IN  IF boot.pending = "DOMContentLoaded"
                       THEN bootCalled(b) ELSE b
        /\ last' = [NoCall EXCEPT !.op = "DOMContentLoaded"]
        /\ UNCHANGED <<page, scroll, atCall, written>>

\* the zero-delay callback ensureAutoInit scheduled runs
BootTimeout ==
    LET r == onReady(Cur)
    IN  /\ boot.pending \in {"timeout", "fallback"}
        /\ Becomes(r.s)
        /\ boot' = bootCalled(boot)
        /\ last' = [NoCall EXCEPT !.op = "bootTimeout"]
        /\ UNCHANGED <<page, scroll, atCall, written>>

\* The module's load and what follows it: the automatic init, the page's own
\* init and teardown calls, and the nav's events.
NextBoot ==
    \/ DomContentLoaded
    \/ BootTimeout
    \/ \E i \in {1, 2} : CallInit(i)
    \/ CallTeardown({}, {})
    \/ ClickToggle

SpecBoot == InitBoot /\ [][NextBoot]_vars

\* the browser dispatches DOMContentLoaded and runs the timers that are due
SpecBootFair ==
    /\ SpecBoot
    /\ WF_vars(DomContentLoaded)
    /\ WF_vars(BootTimeout)

-----------------------------------------------------------------------------
(* The scroll offset (resolveScrollOffset, lines 132-141) and the scroll     *)
(* positions an anchor click asks for.  A string is the sequence of its      *)
(* characters; a JavaScript value is a record of its type and, for a         *)
(* number, its value.                                                        *)

DigitChars == <<"0", "1", "2", "3", "4", "5", "6", "7", "8", "9">>

IsDigit(c) == \E i \in DOMAIN DigitChars : DigitChars[i] = c

DigitVal(c) == (CHOOSE i \in DOMAIN DigitChars : DigitChars[i] = c) - 1

\* the value of a sequence of decimal digits
RECURSIVE DecimalVal(_)
DecimalVal(ds) ==
    IF ds = <<>> THEN 0
    ELSE 10 * DecimalVal(SubSeq(ds, 1, Len(ds) - 1)) + DigitVal(ds[Len(ds)])

\* parseInt(val, 10): leading white space is skipped, then an optional sign,
\* then the longest run of decimal digits; NaN when that run is empty
parseInt(val) ==
    LET n == Len(val)
        start == IF \E i \in 1..n : val[i] # " "
                 THEN CHOOSE i \in 1..n :
                        val[i] # " " /\ \A j \in 1..(i - 1) : val[j] = " "
                 ELSE n + 1
        signed == start <= n /\ val[start] \in {"+", "-"}
        from == IF signed THEN start + 1 ELSE start
        upto == IF \E i \in from..n : ~IsDigit(val[i])
                THEN (CHOOSE i \in from..n :
                        ~IsDigit(val[i])
                        /\ \A j \in from..(i - 1) : IsDigit(val[j])) - 1
                ELSE n
        mag == DecimalVal(SubSeq(val, from, upto))
    IN  IF upto < from THEN [nan |-> TRUE, n |-> 0]
        ELSE [nan |-> FALSE,
              n |-> IF signed /\ val[start] = "-" THEN 0 - mag ELSE mag]

Undefined == [type |-> "undefined", val |-> 0]

Num(n) == [type |-> "number", val |-> n]

\* the fallback arguments resolveScrollOffset is given
Fallbacks ==
    {Undefined, Num(40), Num(0), Num(16), [type |-> "string", val |-> 40]}

\* the --scroll-offset values of the page's style sheet (<<>>: not set)
Hints ==
    { <<>>, <<"2", "4">>, <<"2", "4", "p", "x">>, <<" ", "8", "p", "x">>,
      <<"-", "8">>, <<"a", "u", "t", "o">>, <<"p", "x", "9">>,
      <<"1", ".", "5", "r", "e", "m">>, <<"0">>, <<" ">> }

\* resolveScrollOffset that answers the built-in default whenever the style
\* hint gives no number
resolveScrollOffsetNoFallback(sc, fallback) ==
    LET n == parseInt(sc.hint)
    IN  IF ~sc.styleThrows /\ ~n.nan THEN n.n
        ELSE DEFAULTS.smoothScrollOffset

\* resolveScrollOffset(fallback) on the page sc
resolveScrollOffset(sc, fallback) ==
    LET n == parseInt(sc.hint)                            \* lines 134-135
    IN  IF ~sc.styleThrows /\ ~n.nan THEN n.n             \* line 136
        ELSE IF fallback.type = "number" THEN fallback.val \* line 140
        ELSE DEFAULTS.smoothScrollOffset

Max0(n) == IF n < 0 THEN 0 ELSE n

\* the offsetPx argument handleAnchorClick gives focusAndReveal: script.js
\* lines 377 and 380; part_000 line 433
revealArg(sc, o) ==
    IF sc.file = "script.js" THEN Num(o.smoothScrollOffset)
    ELSE Undefined

\* The scrollTo calls of an anchor click on the page sc under the options
\* o: in script.js the handler's own (line 373: the option, or the default
\* when the option is falsy), then focusAndReveal's (lines 161-167); in
\* part_000 only the latter.  offset and top are those of the last call.
anchorScroll(sc, o) ==
    LET own == IF o.smoothScrollOffset # 0 THEN o.smoothScrollOffset
               ELSE DEFAULTS.smoothScrollOffset
        offset == resolveScrollOffset(sc, revealArg(sc, o))
    IN  [sc EXCEPT !.op = "anchor",
                   !.fallback = revealArg(sc, o),
                   !.first = IF sc.file = "script.js"
                             THEN Max0(sc.rectTop + sc.pageY - own)
                             ELSE Max0(sc.rectTop + sc.pageY - offset),
                   !.offset = offset,
                   !.top = Max0(sc.rectTop + sc.pageY - offset)]

\* the pages and builds the scroll offset is computed on: every hint, and
\* a page whose computed style cannot be read
Scrolls ==
    { sc \in { [NoScroll EXCEPT !.file = f, !.hint = h, !.styleThrows = t,
                                !.rectTop = g[1], !.pageY = g[2]] :
                 f \in {"script.js", "part_000"}, h \in Hints, t \in BOOLEAN,
                 g \in {<<100, 50>>, <<10, 0>>} } :
        sc.styleThrows => sc.hint = <<"2", "4">> }

InitScroll ==
    /\ InitProg
    /\ tabindex = [e \in Elems |-> "null"]
    /\ \A f \in {"toggle", "nav", "form"} : page[f]
    /\ storageOk = TRUE
    /\ boot = NoBoot
    /\ scroll \in Scrolls

\* a caller applies resolveScrollOffset to fallback
CallResolve(fallback) ==
    /\ scroll' = [scroll EXCEPT !.op = "resolve", !.fallback = fallback,
                                !.offset = resolveScrollOffset(scroll, fallback)]
    /\ UNCHANGED <<progVars, page, boot, last, atCall, written>>

\* The user clicks an in-page anchor that names el, and the handler runs
\* with every platform call succeeding.  History: the scroll it asks for.
ScrollAnchor(el) ==
    /\ Subscribed(Cur, "document", "click", "handleAnchorClick")
    /\ AnchorClicked(el, "outside", "none")
    /\ scroll' = anchorScroll(scroll, opts)
    /\ UNCHANGED <<page, boot>>

\* Anchor navigation and the offset it scrolls by.
NextScroll ==
    \/ \E i \in {1, 2} : CallInit(i)
    \/ CallTeardown({}, {})
    \/ \E fallback \in Fallbacks : CallResolve(fallback)
    \/ ScrollAnchor("e1")

SpecScroll == InitScroll /\ [][NextScroll]_vars

-----------------------------------------------------------------------------
(* The contact form's events. *)

\* the user changes the field f: an input event on it bubbles to the form
dispatchInput(S, f, v) ==
    LET S1 == [S EXCEPT !.fields[f] = v]
    IN  IF Subscribed(S, "form", "input", "onInput")
        THEN onInput(S1, f) ELSE S1

\* the form is submitted
dispatchSubmit(S) ==
    IF Subscribed(S, "form", "submit", "handleSubmit")
    THEN handleSubmit(S) ELSE Ret(S)

InitForm ==
    /\ InitProg
    /\ tabindex = [e \in Elems |-> "null"]
    /\ page.form
    /\ storageOk = TRUE
    /\ boot = NoBoot
    /\ scroll = NoScroll

\* The user types v into the field f.  History: whether onInput ran with
\* the timer of an earlier event still pending (again).
Input(f, v) ==
    LET S == dispatchInput(Cur, f, v)
    IN  /\ v # fields[f]
        /\ (S.form.pending /\ ~form.pending) => form.orphans + 1 < MaxPersist
        /\ Becomes(S)
        /\ last' = [NoCall EXCEPT
                      !.op = "input",
                      !.again = /\ form.pending
                                /\ Subscribed(Cur, "form", "input", "onInput")]
        /\ UNCHANGED <<env, atCall, written>>

\* A debounce timer runs persistDraft: the one of the debouncedPersist in
\* force (orphan = FALSE) or one of an earlier installation's.  History:
\* whether it is the timer of an event that found a timer pending (again).
PersistFires(orphan) ==
    LET S == persistDraft(Cur)
    IN  /\ IF orphan THEN form.orphans > 0 ELSE form.pending
        /\ Becomes(IF orphan THEN [S EXCEPT !.form.orphans = @ - 1]
                    ELSE [S EXCEPT !.form.pending = FALSE])
        /\ last' = [NoCall EXCEPT
                      !.op = "persist",
                      !.again = ~orphan /\ last.op = "input" /\ last.again]
        /\ UNCHANGED <<env, atCall, written>>

\* The user submits the form while handleSubmit listens.  History: whether
\* a draft was stored at the time.
Submit ==
    LET r == dispatchSubmit(Cur)
    IN  /\ Subscribed(Cur, "form", "submit", "handleSubmit")
        /\ Becomes(r.s)
        /\ last' = [NoCall EXCEPT !.op = "submit", !.exc = r.exc,
                                  !.ret = r.ret,
                                  !.arg = IF storage.present THEN "draft"
                                          ELSE "none"]
        /\ UNCHANGED <<env, atCall, written>>

\* from now on the localStorage calls throw (the quota is reached, storage
\* access is revoked)
StorageBreaks ==
    /\ storageOk
    /\ storageOk' = FALSE
    /\ last' = [NoCall EXCEPT !.op = "storage"]
    /\ UNCHANGED <<initialized, handlers, formDraft, opts, logLevel, subs,
                   stale, tabindex, revealedPrev, revealedSet, timers, nav,
                   fields, form, storage, demo, env, atCall, written>>

\* The contact form: typing, the debounced draft and submits, with a
\* localStorage that can begin to throw.
NextForm ==
    \/ CallInit(1)
    \/ CallTeardown({}, {})
    \/ \E f \in DOMAIN FieldInputs : \E v \in FieldInputs[f] : Input(f, v)
    \/ \E orphan \in BOOLEAN : PersistFires(orphan)
    \/ Submit
    \/ StorageBreaks

SpecForm == InitForm /\ [][NextForm]_vars

-----------------------------------------------------------------------------
(* The clicks handleAnchorClick filters out (script.js lines 345-371,        *)
(* part_000 lines 385-430).  An href is the sequence of its characters; the  *)
(* page is at the path "/" and every href is of the page's origin.           *)

\* the href attributes of the page's links (<<>>: none): the bare "#", the
\* fragment of e1, a fragment no element carries, the page's own path with
\* the fragment of e1, and another page with and without a fragment
Hrefs ==
    { <<>>, <<"#">>, <<"#", "e", "1">>, <<"#", "z">>,
      <<"/", "#", "e", "1">>, <<"/", "o", "#", "e", "1">>, <<"/", "o">> }

\* The click events: ev.button, the modifier key held, whether the target
\* is inside an <a>, that link's href and data-smooth attributes, and
\* whether the URL constructor throws on this platform.  Every href, with
\* at most one of the other members off a plain click on a link.
Events ==
    { ev \in [defaultPrevented : BOOLEAN, button : {"undefined", "0", "2"},
              modifier : {"none", "meta", "ctrl", "shift", "alt"},
              onLink : BOOLEAN, href : Hrefs, smooth : {"undefined", "false"},
              urlThrows : BOOLEAN] :
        Cardinality({ m \in {"defaultPrevented", "button", "modifier",
                             "onLink", "smooth"} :
                        \/ m = "defaultPrevented" /\ ev.defaultPrevented
                        \/ m = "button" /\ ev.button = "2"
                        \/ m = "modifier" /\ ev.modifier # "none"
                        \/ m = "onLink" /\ ~ev.onLink
                        \/ m = "smooth" /\ ev.smooth = "false" }) <= 1 }

\* location.pathname
LocationPath == <<"/">>

\* href.startsWith('#'), href.indexOf('#') === 0
startsWithHash(href) == href # <<>> /\ Head(href) = "#"

\* href.slice(1)
slice1(cs) == IF cs = <<>> THEN <<>> ELSE Tail(cs)

\* new URL(link.href, location.href): pathname and hash (an empty fragment
\* gives the hash "")
URL(href) ==
    LET marks == { i \in DOMAIN href : href[i] = "#" }
        at == IF marks = {} THEN Len(href) + 1
              ELSE CHOOSE i \in marks : \A j \in marks : i <= j
        path == SubSeq(href, 1, at - 1)
        frag == SubSeq(href, at, Len(href))
    IN  [pathname |-> IF path = <<>> THEN LocationPath ELSE path,
         hash |-> IF Len(frag) <= 1 THEN <<>> ELSE frag]

\* isSamePageLink, part_000 lines 385-396
isSamePageLink(ev) ==
    IF ev.urlThrows THEN startsWithHash(ev.href)          \* line 394
    ELSE IF URL(ev.href).hash = <<>> THEN FALSE           \* line 390
    ELSE URL(ev.href).pathname = LocationPath             \* line 391

\* document.getElementById(id) || document.getElementsByName(id)[0]
getElementById(id) ==
    IF id = <<"e", "1">> THEN "e1"
    ELSE IF id = <<"e", "2">> THEN "e2"
    ELSE "null"

\* What the handler's guards make of the event: "return" (it returns, the
\* default action left alone), "top" (the bare "#": preventDefault and a
\* scroll to the top), or the target element it goes on to reveal.
anchorTarget(file, ev) ==
    IF ev.defaultPrevented THEN "return"                  \* line 347
    ELSE IF ev.button \notin {"undefined", "0"} THEN "return"   \* line 349
    ELSE IF ev.modifier # "none" THEN "return"            \* line 350
    ELSE IF ~ev.onLink THEN "return"                      \* lines 352-353
    ELSE IF file = "script.js"
    THEN IF ~startsWithHash(ev.href) THEN "return"        \* line 355
         ELSE IF slice1(ev.href) = <<>> THEN "top"        \* lines 358-367
         ELSE IF getElementById(slice1(ev.href)) = "null"
         THEN "return"                                    \* line 370
         ELSE getElementById(slice1(ev.href))
    ELSE IF ev.smooth = "false" THEN "return"             \* part_000 line 409
    ELSE IF ~isSamePageLink(ev) THEN "return"             \* part_000 line 412
    ELSE LET hash == IF startsWithHash(ev.href) THEN ev.href
                     ELSE URL(ev.href).hash               \* part_000 line 415
             id == slice1(hash)
         IN  IF id = <<>> THEN "top"                      \* part_000 418-426
             ELSE IF getElementById(id) = "null"
             THEN "return"                                \* part_000 line 429
             ELSE getElementById(id)

\* handleAnchorClick for any click event, every platform call past the
\* guards succeeding
handleAnchorClickEvent(S, file, ev) ==
    LET target == anchorTarget(file, ev)
    IN  IF target = "return" THEN Ret(S)
        ELSE IF target = "top" THEN RetVal(S, "defaultPrevented")
        ELSE handleAnchorClick(S, target, FALSE, "none")

\* the builds the clicks are handled by
InitClick ==
    /\ InitProg
    /\ tabindex = [e \in Elems |-> "null"]
    /\ ~page.form
    /\ storageOk = TRUE
    /\ boot = NoBoot
    /\ scroll \in { [NoScroll EXCEPT !.file = f, !.pageY = 50] :
                      f \in {"script.js", "part_000"} }

\* The user clicks somewhere outside the nav while handleAnchorClick
\* listens.  History: the event, what the handler returned having called
\* preventDefault or not, and the scroll to the top it asked for.
ClickEvent(ev) ==
    LET target == anchorTarget(scroll.file, ev)
        S1 == dispatchOtherClick(Cur, "outside")
        r == handleAnchorClickEvent(S1, scroll.file, ev)
    IN  /\ Subscribed(Cur, "document", "click", "handleAnchorClick")
        /\ IF target \in Elems
           THEN ClickAnchor(target, "outside", "none")
           ELSE /\ Becomes(r.s)
                /\ last' = [NoCall EXCEPT !.op = "click", !.ev = ev,
                                          !.exc = r.exc, !.ret = r.ret]
                /\ scroll' = IF target = "top"
                             THEN [scroll EXCEPT !.op = "top", !.top = 0]
                             ELSE scroll
                /\ UNCHANGED <<page, boot, atCall, written>>

\* Clicks of every kind on the page, reveals and their restoration (only
\* part_000 calls the URL constructor).
NextClick ==
    \/ CallInit(1)
    \/ CallTeardown({}, {})
    \/ \E ev \in Events :
         /\ ev.urlThrows => scroll.file = "part_000"
         /\ ClickEvent(ev)
    \/ TimerFires(FALSE)

SpecClick == InitClick /\ [][NextClick]_vars

-----------------------------------------------------------------------------
(* The claims. *)

\* C1: initialized has two values and is false at load; it becomes true
\* only by an init() called while it is false, and every init() that returns
\* leaves it true; it becomes false only by a teardown() called while it is
\* true, and every teardown() leaves it false; so init() on an initialized
\* and teardown() on an uninitialized system are self-loops.
C1_Lifecycle ==
    /\ initialized = FALSE
    /\ [][ /\ initialized' \in BOOLEAN
           /\ (~initialized /\ initialized') => last'.op = "init"
           /\ (initialized /\ ~initialized') => last'.op = "teardown"
           /\ (last'.op = "init" /\ ~last'.exc) => initialized'
           /\ (last'.op = "init" /\ last'.exc) => ~initialized'
           /\ last'.op = "teardown" => ~initialized' ]_vars

\* an init() on an initialized system has just returned
C1_Witness ==
    /\ last.op = "init"
    /\ last.wasInit
    /\ initialized

\* C2: on an initialized system init(arg) changes nothing (registry,
\* subscriptions, options, logger level, RevealState, ...), does not throw
\* and returns the SiteApp handle, for every argument, the ones that are not
\* objects included.
C2_SecondInitNoOp ==
    initialized =>
        \A i \in DOMAIN InitArgs :
            init(Cur, InitArgs[i]) = RetVal(Cur, "SiteApp")

\* a second init() in a row has returned on a system with listeners
\* installed and a reveal in progress
C2_Witness ==
    /\ last.op = "init"
    /\ last.again
    /\ last.wasInit
    /\ last.ret = "SiteApp"
    /\ handlers # <<>>
    /\ revealedSet # {}

\* C3: from every reachable state, teardown() twice leaves the state
\* teardown() once leaves, and neither call throws.
C3_TeardownIdempotent ==
    \A f1 \in RemoveFaults, d1 \in SUBSET revealedSet :
        LET r1 == teardown(Cur, f1, d1)
        IN  /\ ~r1.exc
            /\ \A f2 \in RemoveFaults, d2 \in SUBSET Elems :
                 LET r2 == teardown(r1.s, f2, d2)
                 IN  /\ ~r2.exc
                     /\ r2.s = r1.s

\* teardown() was called a second time in a row, with restore callbacks of
\* the torn-down reveals still pending
C3_Witness ==
    /\ last.op = "teardown"
    /\ last.again
    /\ ~last.exc
    /\ \E i \in DOMAIN timers : timers[i].torn

\* C4: after teardown() the registry is empty, no target holds a
\* subscription, and dispatching any handled event on any target runs no
\* handler: the state is left as it is (the platform having carried out
\* every removal; a removal that throws is C17's case).
C4_TeardownDrainsListeners ==
    (last.op = "teardown" /\ stale = {}) =>
        /\ handlers = <<>>
        /\ subs = {}
        /\ \A el \in Elems, where \in {"nav", "outside"}, f \in RevealFaults :
             dispatchAnchorClick(Cur, el, where, f) = Ret(Cur)
        /\ dispatchToggleClick(Cur) = Cur
        /\ \A where \in {"nav", "outside"} : dispatchOtherClick(Cur, where) = Cur
        /\ \A key \in {"Escape", "Enter"} : dispatchKeydown(Cur, key) = Cur

\* teardown() has just torn down an installation of all three widgets whose
\* nav was open
C4_Witness ==
    /\ last.op = "teardown"
    /\ last.wasInit
    /\ opts = DEFAULTS
    /\ page.nav /\ page.form
    /\ nav.bodyOpen

\* C5: when a restoration (the restore callback, or teardown) processes an
\* element whose reveal is in progress and that had no tabindex attribute
\* when focusAndReveal was called, it leaves the element without one (the
\* platform having carried out its DOM calls; a failing one is C11's case).
C5_RevealRoundTrip ==
    \A e \in Elems \ last.failed :
        (last.op \in {"timer", "teardown"} /\ last.prior[e] = "null")
            => tabindex[e] = "null"

\* a teardown() has restored two revealed elements that had no tabindex
C5_Witness ==
    /\ last.op = "teardown"
    /\ last.failed = {}
    /\ \A e \in Elems : last.prior[e] = "null"

\* C6: when a restoration (the restore callback, or teardown) processes an
\* element whose reveal is in progress and that carried tabindex v when
\* focusAndReveal was called, it leaves the element with tabindex v (the
\* platform having carried out its DOM calls).
C6_RevealKeepsMarker ==
    \A e \in Elems \ last.failed :
        (last.op \in {"timer", "teardown"} /\ last.prior[e] \notin {"never", "null"})
            => tabindex[e] = last.prior[e]

\* the restore callback has restored an element revealed with tabindex "3"
C6_Witness ==
    /\ last.op = "timer"
    /\ last.failed = {}
    /\ last.prior[last.el] = "3"

\* C7 as stated: an element is in RevealState exactly when focusAndReveal
\* wrote its tabindex and no restoration has processed it since.
C7_Original ==
    /\ revealedSet = written
    /\ \A e \in Elems : revealedPrev[e] # "undefined" <=> e \in written

\* C7 amended: an element is in RevealState exactly when a focusAndReveal
\* call on it has returned normally (having recorded its tabindex, and
\* written "-1" unless that was its value) and neither a restoration nor a
\* failing focusAndReveal call has processed it since; while it is there
\* its tabindex is "-1" and the recorded value is the one it had at the call.
C7_RevealStateTracksReveals ==
    \A e \in Elems :
        /\ e \in revealedSet <=> atCall[e] # "never"
        /\ e \in revealedSet =>
             /\ tabindex[e] = "-1"
             /\ revealedPrev[e] = atCall[e]

\* an element revealed with tabindex "-1" is in RevealState although the
\* primitive never wrote its attribute
C7_Witness ==
    /\ "e1" \in revealedSet
    /\ "e1" \notin written
    /\ atCall["e1"] = "-1"

\* C8: a restore callback that runs after teardown() restored its element
\* changes neither tabindex nor RevealState; and teardown() leaves alone
\* every element that is not in RevealState.
C8_PathsExclusive ==
    [][ /\ (last'.op = "timer" /\ timers # <<>> /\ Head(timers).torn)
              => UNCHANGED <<tabindex, revealedPrev, revealedSet>>
        /\ last'.op = "teardown"
              => \A e \in Elems \ revealedSet : tabindex'[e] = tabindex[e]
      ]_vars

\* C9: every element whose tabindex focusAndReveal wrote, and that no
\* restoration has processed since, has a RevealState entry or a pending
\* restore callback.
C9_NoUntrackedMutation ==
    \A e \in written :
        \/ e \in revealedSet
        \/ \E i \in DOMAIN timers : timers[i].el = e

\* C10: when a step of focusAndReveal throws, the element is afterwards in
\* neither the map nor the set, and no exception leaves the call.
C10_ThrowCleansUp ==
    (last.op = "reveal" /\ last.fault # "none") =>
        /\ last.el \notin revealedSet
        /\ revealedPrev[last.el] = "undefined"
        /\ ~last.exc

\* a step after the attribute write has thrown in a focusAndReveal call on
\* an element whose earlier reveal was still in progress
C10_Witness ==
    /\ last.op = "reveal"
    /\ last.fault = "scroll"
    /\ \E i \in DOMAIN timers : timers[i].el = last.el

\* C11: the restore callback leaves the attribute that this function of
\* (recorded prior value, attribute found) gives: with no prior value
\* recorded, no attribute if it finds "-1" and the attribute as it is
\* otherwise; with a prior value recorded, that value; and whether or not
\* a DOM call fails it removes the element from the map and the set, and
\* touches no other element.
C11_RestoreFunction ==
    /\ \A rec \in TabVals \cup {"undefined"}, cur \in TabVals :
         /\ (rec \in {"null", "undefined"} /\ cur = "-1")
               => restoreAttr(rec, cur) = "null"
         /\ (rec \in {"null", "undefined"} /\ cur # "-1")
               => restoreAttr(rec, cur) = cur
         /\ rec \notin {"null", "undefined"} => restoreAttr(rec, cur) = rec
    /\ \A e \in Elems, domFails \in BOOLEAN :
         LET R == restore(Cur, e, domFails)
         IN  /\ e \notin R.revealedSet
             /\ R.revealedPrev[e] = "undefined"
             /\ R.tabindex[e] = IF domFails THEN tabindex[e]
                                ELSE restoreAttr(revealedPrev[e], tabindex[e])
             /\ \A o \in Elems \ {e} :
                  /\ R.tabindex[o] = tabindex[o]
                  /\ R.revealedPrev[o] = revealedPrev[o]
                  /\ (o \in R.revealedSet) = (o \in revealedSet)
    /\ last.op = "timer" =>
         /\ last.el \notin revealedSet
         /\ revealedPrev[last.el] = "undefined"

\* a restore callback whose DOM call failed has run for an element revealed
\* without tabindex: the "-1" stays, the element has left RevealState
C11_Witness ==
    /\ last.op = "timer"
    /\ last.failed = {last.el}
    /\ last.prior[last.el] = "null"
    /\ tabindex[last.el] = "-1"
    /\ last.el \notin revealedSet

\* C12: teardown() on an initialized system first removes the listeners,
\* then, with initialized still true and without consuming any timer,
\* applies to every element of RevealState the restoration the restore
\* callback would apply and empties RevealState, and only then clears
\* initialized; so RevealState is empty when teardown() returns.
C12_TeardownRestoresSynchronously ==
    /\ initialized =>
         \A f \in RemoveFaults, d \in SUBSET revealedSet :
            LET st == teardownSteps(Cur, f, d)
            IN  /\ teardown(Cur, f, d) = Ret(st[4])
                /\ st[1] = Cur
                /\ st[2].handlers = <<>>
                /\ st[2].initialized
                /\ st[2].revealedSet = revealedSet
                /\ st[2].tabindex = tabindex
                /\ st[3].handlers = <<>>
                /\ st[3].initialized
                /\ st[3].revealedSet = {}
                /\ \A e \in Elems : st[3].revealedPrev[e] = "undefined"
                /\ \A e \in revealedSet \ d :
                     st[3].tabindex[e] = restore(Cur, e, FALSE).tabindex[e]
                /\ st[3].timers = timers
                /\ ~st[4].initialized
                /\ st[4].revealedSet = {}
    /\ (last.op = "teardown" /\ last.wasInit) =>
         /\ revealedSet = {}
         /\ \A e \in Elems : revealedPrev[e] = "undefined"
         /\ ~initialized

\* teardown() has restored the reveals in progress while both their restore
\* callbacks were still pending
C12_Witness ==
    /\ last.op = "teardown"
    /\ last.wasInit
    /\ revealedSet = {}
    /\ Len(timers) = 2
    /\ timers[1].torn /\ timers[2].torn
    /\ timers[1].el # timers[2].el

\* C13: after an init() that installs, every enabled widget whose own
\* installation does not throw has its listeners registered, whatever an
\* earlier widget's installation did.
C13_InstallersIsolated ==
    (last.op = "init" /\ ~last.wasInit /\ ~last.exc) =>
        /\ opts.enableSmoothScroll =>
              Subscribed(Cur, "document", "click", "handleAnchorClick")
        /\ (opts.enableContactForm /\ page.form
               /\ opts.contactFormSelector # BadSelector) =>
              Subscribed(Cur, "form", "submit", "handleSubmit")

\* C14: init() with an option object for which a widget's installation
\* throws returns the handle without throwing and leaves the system
\* initialized; the listeners registered before the failure are in the
\* registry and subscribed, and the next teardown() removes them.
C14_WidgetFailureStillInitializes ==
    ~initialized =>
        \A i \in DOMAIN InitArgs :
            LET arg == InitArgs[i]
                o == mergeOptions(arg)
                r == init(Cur, arg)
                T == teardown(r.s, {}, {}).s
            IN  (/\ arg.kind = "object"
                 /\ \/ o.enableMobileNav /\ o.mobileNavToggleSelector = BadSelector
                    \/ o.enableContactForm /\ o.contactFormSelector = BadSelector)
                => /\ ~r.exc
                   /\ r.ret = "SiteApp"
                   /\ r.s.initialized
                   /\ r.s.subs = SubsOf(r.s.handlers)
                   /\ (o.mobileNavToggleSelector # BadSelector
                         /\ o.enableSmoothScroll) =>
                        \E k \in DOMAIN r.s.handlers :
                            r.s.handlers[k].listener = "handleAnchorClick"
                   /\ T.handlers = <<>>
                   /\ T.subs = {}
                   /\ ~T.initialized

\* init() has returned although the contact form's installation threw,
\* with the listeners of the widgets before it registered
C14_Witness ==
    /\ last.op = "init"
    /\ ~last.wasInit
    /\ ~last.exc
    /\ initialized
    /\ opts.contactFormSelector = BadSelector
    /\ handlers # <<>>

\* C15: an init(arg) called on an uninitialized system with an argument
\* that is neither an object nor absent throws.
C15_NonObjectRejected ==
    (last.op = "init" /\ ~last.wasInit /\ last.arg \in {"number", "string"})
        => last.exc

\* C16: no call and no handler lets an exception out except init(), and
\* teardown() returns normally in every state.
C16_OnlyInitThrows ==
    /\ last.exc => last.op = "init"
    /\ \A f \in RemoveFaults, d \in SUBSET Elems : ~teardown(Cur, f, d).exc

\* C17: removeAllListeners() leaves the registry empty whether or not a
\* removal throws, and unsubscribes every record whose own removal does not
\* throw, the records that follow a failing one included.
C17_RemovalFailuresIgnored ==
    /\ \A f \in RemoveFaults :
         LET R == removeAllListeners(Cur, f)
         IN  /\ R.handlers = <<>>
             /\ \A i \in DOMAIN handlers :
                  handlers[i].target \notin f =>
                      Sub(handlers[i].target, handlers[i].type,
                          handlers[i].listener) \notin R.subs
             /\ \A s \in R.stale \ stale : s.target \in f
    /\ (last.op = "teardown" /\ last.wasInit) =>
         /\ handlers = <<>>
         /\ subs = {}
         /\ \A s \in stale : s.target = "toggle"

\* a teardown() in which the toggle's removals threw has emptied the
\* registry and unsubscribed the document's and the form's listeners
C17_Witness ==
    /\ last.op = "teardown"
    /\ last.fault = "removeEventListener"
    /\ stale # {}
    /\ page.form
    /\ opts = DEFAULTS
    /\ handlers = <<>>
    /\ subs = {}

\* C18: every subscription a widget holds on a target (the demo widget's
\* included) has a ListenerRecord, and the demo widget's installation
\* registers its listeners.
C18_WidgetsRegisterThroughManager ==
    /\ \A s \in subs \cup demoSubs(Cur) : s \in SubsOf(handlers)
    /\ demo # "failed"

\* C19 as stated: the records correspond one-to-one to the subscriptions
\* installed through addListener that the targets still hold.
C19_Original ==
    /\ subs \cup stale = SubsOf(handlers)
    /\ Cardinality(subs \cup stale) = Len(handlers)

\* C19 amended: the records correspond one-to-one to the subscriptions
\* installed through addListener that no removeAllListeners() has processed
\* since (a subscription whose removal threw stays on its target without a
\* record); addListener on a target that cannot accept subscriptions adds
\* neither a subscription nor a record, and on any other target it adds
\* the subscription and appends exactly one record.
C19_RegistryMatchesSubscriptions ==
    /\ subs = SubsOf(handlers)
    /\ Cardinality(subs) = Len(handlers)
    /\ addListener(Cur, "null", "click", "listener", "false") = Cur
    /\ LET A == addListener(Cur, "window", "resize", "listener", "false")
       IN  /\ Len(A.handlers) = Len(handlers) + 1
           /\ SubSeq(A.handlers, 1, Len(handlers)) = handlers
           /\ A.subs = subs \cup {Sub("window", "resize", "listener")}
           /\ A.subs = SubsOf(A.handlers)

\* all three widgets are installed again after a teardown() in which the
\* toggle's removals threw
C19_Witness ==
    /\ initialized
    /\ stale # {}
    /\ Len(handlers) = 8

\* C20: when focusAndReveal returns normally for an element that was in
\* RevealState already, the element is in the set and has one map entry,
\* which is the marker the element carried at this call, "-1", and the
\* other elements' entries are as they were.
C20_DoubleReveal ==
    /\ (last.op = "reveal" /\ last.fault = "none" /\ last.again) =>
         /\ last.el \in revealedSet
         /\ revealedPrev[last.el] = "-1"
         /\ tabindex[last.el] = "-1"
    /\ \A e \in revealedSet :
         LET R == focusAndReveal(Cur, e, "none").s
         IN  /\ R.revealedSet = revealedSet
             /\ R.revealedPrev[e] = tabindex[e]
             /\ R.revealedPrev[e] = "-1"
             /\ \A o \in Elems \ {e} : R.revealedPrev[o] = revealedPrev[o]

\* an element whose tabindex the first reveal wrote has been revealed again
\* with the first restore callback still pending: the record now holds "-1"
C20_Witness ==
    /\ last.op = "reveal"
    /\ last.fault = "none"
    /\ last.again
    /\ last.el \in written
    /\ revealedPrev[last.el] = "-1"
    /\ Len(timers) = 2
    /\ timers[1].el = last.el /\ timers[2].el = last.el

\* C21: the module's load schedules the automatic init() unless a flag opts
\* out (__SITEAPP_NO_AUTO_INIT, or __SITEAPP_ENABLE_TESTS): on a platform
\* whose calls succeed it is called once, without argument, and not before
\* the document has finished loading (by the DOMContentLoaded listener when
\* the document was loading, else by the zero-delay callback); with a flag
\* set nothing is scheduled and the bootstrap never calls init().
C21_AutoInitOnce ==
    /\ [](boot.calls <= 1)
    /\ [](optedOut(boot) => (boot.calls = 0 /\ boot.pending = "none"))
    /\ []((~optedOut(boot) /\ ~boot.fault) =>
            /\ ~boot.early
            /\ boot.calls = 0 =>
                  boot.pending = IF boot.readyState = "loading"
                                 THEN "DOMContentLoaded" ELSE "timeout"
            /\ boot.calls = 1 =>
                  /\ boot.pending = "none"
                  /\ boot.arg = "undefined"
                  /\ boot.readyState # "loading")
    /\ [](~optedOut(boot) => <>(boot.calls = 1))

C21_Witness ==
    /\ ~boot.noAutoInit /\ ~boot.enableTests /\ ~boot.fault
    /\ boot.calls = 1
    /\ boot.readyState = "interactive"
    /\ initialized

\* C22: whenever the system is initialized with smooth scroll enabled, a
\* primary-button click without modifier keys on an anchor whose href names
\* an element of the page, all platform calls succeeding, ends with the
\* default action prevented, the element carrying tabindex "-1" and a
\* RevealState entry for it.
C22_AnchorClickReveals ==
    ( /\ last.op \in {"reveal", "event"}
      /\ last.el \in Elems
      /\ last.fault = "none"
      /\ initialized
      /\ opts.enableSmoothScroll )
    => /\ last.ret = "defaultPrevented"
       /\ tabindex[last.el] = "-1"
       /\ last.el \in revealedSet
       /\ revealedPrev[last.el] # "undefined"

\* C23: resolveScrollOffset(fallback) returns the integer parseInt reads
\* from the --scroll-offset style hint when there is one; otherwise the
\* fallback when it is a number (40 yields 40) and else 16; a style read that
\* throws counts as no hint.
C23_ResolveScrollOffset ==
    scroll.op = "resolve" =>
      LET h == scroll.hint
          noHint == scroll.styleThrows
                    \/ h \in {<<>>, <<" ">>, <<"a", "u", "t", "o">>,
                               <<"p", "x", "9">>}
      IN  /\ (~scroll.styleThrows /\ h = <<"2", "4">>) => scroll.offset = 24
          /\ (~scroll.styleThrows /\ h = <<"2", "4", "p", "x">>)
                => scroll.offset = 24
          /\ (~scroll.styleThrows /\ h = <<" ", "8", "p", "x">>)
                => scroll.offset = 8
          /\ (~scroll.styleThrows /\ h = <<"-", "8">>) => scroll.offset = 0 - 8
          /\ (~scroll.styleThrows /\ h = <<"1", ".", "5", "r", "e", "m">>)
                => scroll.offset = 1
          /\ (~scroll.styleThrows /\ h = <<"0">>) => scroll.offset = 0
          /\ (noHint /\ scroll.fallback.type = "number")
                => scroll.offset = scroll.fallback.val
          /\ (noHint /\ scroll.fallback = Num(40)) => scroll.offset = 40
          /\ (noHint /\ scroll.fallback.type # "number")
                => scroll.offset = 16

C23_Witness ==
    /\ scroll.op = "resolve"
    /\ scroll.styleThrows
    /\ scroll.hint = <<"2", "4">>
    /\ scroll.fallback = Num(40)
    /\ scroll.offset = 40

\* C24: an anchor click that reveals its target on a page without a style
\* hint scrolls by the configured smoothScrollOffset option.
C24_OptionIsOffset ==
    ( /\ last.op = "reveal"
      /\ scroll.op = "anchor"
      /\ ~scroll.styleThrows
      /\ scroll.hint = <<>> )
    => /\ scroll.offset = opts.smoothScrollOffset
       /\ scroll.top = Max0(scroll.rectTop + scroll.pageY
                              - opts.smoothScrollOffset)

\* C25: init() called with nothing or with an options object whose
\* selectors are valid installs the enabled widgets in the order nav, smooth
\* scroll, contact form; a widget whose flag is false or whose elements the page
\* lacks registers nothing and raises nothing, the others are installed all
\* the same, and the system is initialized.
C25_InstallOrder ==
    ( /\ last.op = "init"
      /\ ~last.wasInit
      /\ last.arg \in {"undefined", "object"}
      /\ opts.mobileNavToggleSelector # BadSelector
      /\ opts.contactFormSelector # BadSelector )
    => LET navRecs ==
             IF opts.enableMobileNav /\ page.toggle /\ page.nav
             THEN << <<"toggle", "click">>, <<"toggle", "touchstart">>,
                     <<"document", "keydown">>, <<"document", "click">> >>
             ELSE <<>>
           scrollRecs ==
             IF opts.enableSmoothScroll THEN << <<"document", "click">> >>
             ELSE <<>>
           formRecs ==
             IF opts.enableContactForm /\ page.form
             THEN << <<"form", "input">>, <<"form", "change">>,
                     <<"form", "submit">> >>
             ELSE <<>>
       IN  /\ ~last.exc
           /\ initialized
           /\ [i \in DOMAIN handlers |->
                 <<handlers[i].target, handlers[i].type>>]
                = navRecs \o scrollRecs \o formRecs
           /\ SubsOf(handlers) \subseteq subs

C25_Witness ==
    /\ last.op = "init"
    /\ ~last.wasInit
    /\ initialized
    /\ ~opts.enableMobileNav
    /\ page.form
    /\ Len(handlers) = 4

\* C26: with the nav closed and its listeners installed, a click on the
\* toggle puts the open class on the body and aria-expanded "true" on the
\* toggle and on the nav; a second click takes the class away and sets
\* aria-expanded "false" on both.
C26_ToggleRoundTrip ==
    ( /\ Subscribed(Cur, "toggle", "click", "toggleClick")
      /\ stale = {}
      /\ ~nav.bodyOpen
      /\ nav.toggleExpanded = "false" )
    => LET S1 == dispatchToggleClick(Cur)
           S2 == dispatchToggleClick(S1)
       IN  /\ S1.nav.bodyOpen
           /\ S1.nav.toggleExpanded = "true"
           /\ S1.nav.navExpanded = "true"
           /\ ~S2.nav.bodyOpen
           /\ S2.nav.toggleExpanded = "false"
           /\ S2.nav.navExpanded = "false"
           /\ nav.navExpanded = "false" => S2.nav = nav

C26_Witness ==
    /\ Subscribed(Cur, "toggle", "click", "toggleClick")
    /\ nav.bodyOpen
    /\ nav.toggleExpanded = "true"
    /\ nav.navExpanded = "true"
    /\ last.op = "event"

\* C30: while the system is not initialized the registry is empty; while it
\* is initialized, after any number of init/teardown cycles, the registry
\* holds exactly the records one installation registers under the options
\* in force, each once.
C30_RegistryOneInstallation ==
    /\ ~initialized => handlers = <<>>
    /\ initialized =>
          /\ handlers = installWidgets([Cur EXCEPT !.handlers = <<>>,
                                                   !.subs = {}]).handlers
          /\ \A i, j \in DOMAIN handlers :
                handlers[i] = handlers[j] => i = j

C30_Witness ==
    /\ last.op = "init"
    /\ ~last.wasInit
    /\ initialized
    /\ stale # {}
    /\ Len(handlers) = 8

\* C27: when the debounce timer runs persistDraft, the storage key comes to
\* hold a draft whose name, email and message are the fields' values as they
\* are, and lastDraft is that draft; a submit that passes validation removes
\* the stored draft and clears lastDraft (localStorage working).
C27_DraftRoundTrip ==
    [][ /\ (last'.op = "persist" /\ storageOk) =>
              /\ storage' = [present |-> TRUE, name |-> fields.name,
                             email |-> fields.email,
                             message |-> fields.message]
              /\ formDraft' = storage'
              /\ fields' = fields
        /\ ( /\ last'.op = "submit"
             /\ storageOk
             /\ fields.name \in {"Ann", " Ann "}
             /\ fields.email = "ann@example.com"
             /\ fields.message = "Hi" ) =>
              /\ ~storage'.present
              /\ ~formDraft'.present ]_vars

C27_Witness ==
    /\ last.op = "persist"
    /\ storageOk
    /\ ~form.pending
    /\ fields = [name |-> " Ann ", email |-> "ann@example.com",
                 message |-> "Hi"]
    /\ storage.present
    /\ storage.name = " Ann "
    /\ formDraft = storage

\* C28: a submit that finds a validation error prevents the default action,
\* marks exactly the failing fields aria-invalid, and leaves the stored
\* draft, lastDraft, the success message and the fields' values as they were.
C28_InvalidSubmit ==
    [][ LET failing ==
              {f \in {"name"} : fields.name = ""}
              \cup {f \in {"email"} : fields.email # "ann@example.com"}
              \cup {f \in {"message"} : fields.message = ""}
        IN  (last'.op = "submit" /\ failing # {}) =>
              /\ last'.ret = "defaultPrevented"
              /\ form'.invalid = failing
              /\ storage' = storage
              /\ formDraft' = formDraft
              /\ form'.success = form.success
              /\ fields' = fields ]_vars

C28_Witness ==
    /\ last.op = "submit"
    /\ last.arg = "draft"
    /\ last.ret = "defaultPrevented"
    /\ fields.email = "ann@"
    /\ form.invalid = {"email"}
    /\ storage.present
    /\ formDraft.present
    /\ ~form.success

\* C29: once the localStorage calls throw, no step changes the stored draft
\* or lastDraft and none ends in an exception; a valid submit still shows
\* the success message and resets the form, and an init() still installs the
\* form's three listeners and marks the system initialized.
C29_StorageFailuresContained ==
    [][ ~storageOk =>
          /\ storage' = storage
          /\ formDraft' = formDraft
          /\ ~last'.exc
          /\ ( /\ last'.op = "submit"
               /\ fields.name \in {"Ann", " Ann "}
               /\ fields.email = "ann@example.com"
               /\ fields.message = "Hi" ) =>
                /\ form'.success
                /\ form'.invalid = {}
                /\ fields' = [f \in DOMAIN fields |-> ""]
          /\ (last'.op = "init" /\ ~initialized) =>
                /\ initialized'
                /\ fields' = fields
                /\ { Sub("form", "input", "onInput"),
                     Sub("form", "change", "onInput"),
                     Sub("form", "submit", "handleSubmit") } \subseteq subs'
          /\ last'.op = "persist" => (fields' = fields /\ form'.invalid = form.invalid)
      ]_vars

C29_Witness ==
    /\ last.op = "submit"
    /\ ~storageOk
    /\ form.success
    /\ fields = [f \in DOMAIN fields |-> ""]
    /\ storage.present
    /\ formDraft.present

\* C31: an init() that rejects its argument with the configuration error
\* changes nothing: initialized stays false, no listener is registered, and
\* the options and the logger level stay the ones in force before the call.
C31_RejectedInitChangesNothing ==
    [][ (last'.op = "init" /\ last'.exc) =>
          /\ last'.arg \in {"number", "string"}
          /\ ~initialized /\ ~initialized'
          /\ handlers' = handlers /\ handlers' = <<>>
          /\ subs' = subs
          /\ opts' = opts
          /\ logLevel' = logLevel
          /\ UNCHANGED progVars ]_vars

C31_Witness ==
    /\ last.op = "init"
    /\ last.exc
    /\ ~initialized
    /\ handlers = <<>>
    /\ opts.smoothScrollOffset = 40
    /\ logLevel = "debug"

\* C32: two focusAndReveal calls on one element before its first restore
\* callback runs, no teardown in between, all DOM calls succeeding: once both
\* callbacks have run the element has no RevealState entry and no tabindex
\* attribute, whatever attribute ("3", "-1" or none) it had before the first
\* call.  Stated twice: for the two calls and two callbacks applied to every
\* reachable state in which the element is at rest, and for every state
\* that the second of the two callbacks has just left.
C32_DoubleRevealLosesOriginal ==
    /\ [](\A el \in Elems :
            ( /\ el \notin revealedSet
              /\ \A i \in DOMAIN timers : timers[i].el # el )
            => LET S1 == focusAndReveal(Cur, el, "none").s
                   S2 == focusAndReveal(S1, el, "none").s
                   S3 == restore(S2, el, FALSE)
                   S4 == restore(S3, el, FALSE)
               IN  /\ S2.revealedPrev[el] = "-1"
                   /\ S3.tabindex[el] = "-1"
                   /\ S4.tabindex[el] = "null"
                   /\ el \notin S4.revealedSet
                   /\ S4.revealedPrev[el] = "undefined")
    /\ []( ( /\ last.op = "timer"
             /\ last.again
             /\ last.failed = {}
             /\ \A i \in DOMAIN timers : timers[i].el # last.el )
           => /\ tabindex[last.el] = "null"
              /\ last.el \notin revealedSet
              /\ revealedPrev[last.el] = "undefined" )

C32_Witness ==
    /\ last.op = "timer"
    /\ last.el = "e1"
    /\ last.failed = {}
    /\ last.again
    /\ last.prior["e1"] = "never"
    /\ initialized
    /\ timers = <<>>
    /\ tabindex["e1"] = "null"
    /\ "e1" \notin revealedSet
    /\ revealedPrev["e1"] = "undefined"

\* C33: timers firing when due, every element put into RevealState is later
\* out of it (removed by its restore callback, by the catch block or by a
\* teardown), and once no focusAndReveal call follows, RevealState becomes
\* empty (set and map both) and stays so.
C33_RevealEventuallyRemoved ==
    /\ \A el \in Elems : (el \in revealedSet) ~> (el \notin revealedSet)
    /\ \A el \in Elems :
          (revealedPrev[el] # "undefined") ~> (revealedPrev[el] = "undefined")
    /\ (<>[][last'.op # "reveal"]_vars) =>
          <>[](/\ revealedSet = {}
               /\ revealedPrev = [e \in Elems |-> "undefined"])

C33_Witness ==
    /\ last.op = "timer"
    /\ last.prior[last.el] # "never"
    /\ revealedSet = {}
    /\ revealedPrev = [e \in Elems |-> "undefined"]
    /\ timers = <<>>

\* C34: a callback the system deferred before a teardown changes neither
\* the persistent nor the cached state once teardown() has returned: a
\* debounced persistDraft that runs while the system is torn down leaves
\* localStorage and state.formDraft as they were.
C34_NoDeferredWriteAfterTeardown ==
    [][ (last'.op = "persist" /\ ~initialized) =>
          /\ storage' = storage
          /\ formDraft' = formDraft ]_vars

\* C35: once a valid submit has removed the stored draft, the storage key
\* holds no draft until the next input or change event: a debounced
\* persistDraft that an input before the submit scheduled, running right
\* after the submit, does not store a draft again.
C35_NoDraftAfterSubmit ==
    [][ ( /\ last.op = "submit"
          /\ form.success
          /\ ~storage.present
          /\ last'.op = "persist" ) => ~storage'.present ]_vars

\* C36: input or change events that each arrive while the timer of the
\* one before is pending cause one draft write: every such event writes
\* nothing and leaves one timer pending, its own; when that timer runs,
\* persistDraft stores the values the fields hold then (if localStorage
\* accepts them), and no timer of the burst is left.
C36_BurstWritesOnce ==
    [][ /\ ( /\ last'.op = "input"
             /\ Subscribed(Cur, "form", "input", "onInput") ) =>
               /\ form'.pending
               /\ form'.orphans = form.orphans
               /\ storage' = storage
               /\ formDraft' = formDraft
        /\ ( /\ last'.op = "persist"
             /\ form'.orphans = form.orphans ) =>
               /\ form.pending /\ ~form'.pending
               /\ fields' = fields
               /\ storageOk => /\ storage' = DraftOf(Cur)
                               /\ formDraft' = DraftOf(Cur)
               /\ ~storageOk => /\ storage' = storage
                                /\ formDraft' = formDraft
      ]_vars

C36_Witness ==
    /\ last.op = "persist"
    /\ last.again
    /\ ~form.pending
    /\ form.orphans = 0
    /\ fields = [name |-> " Ann ", email |-> "ann@", message |-> "Hi"]
    /\ storage = [present |-> TRUE, name |-> " Ann ", email |-> "ann@",
                  message |-> "Hi"]
    /\ formDraft = storage

\* C37: the anchor click handler returns without preventDefault, RevealState
\* and the scroll position as they were, for every click that is
\* default-prevented, not primary-button, modified, not on a link to a
\* fragment of this page, or names an id no element carries; for a plain
\* click on a link whose href is the bare "#" it calls preventDefault and
\* scrolls to the top, RevealState as it was.
C37_FilteredClicks ==
    [][ last'.op = "click" =>
          LET ev == last'.ev
              url == URL(ev.href)
              leftAlone ==
                  \/ ev.defaultPrevented
                  \/ ev.button \notin {"undefined", "0"}
                  \/ ev.modifier # "none"
                  \/ ~ev.onLink
                  \/ url.hash = <<>> /\ ev.href # <<"#">>
                  \/ url.pathname # LocationPath
                  \/ /\ url.hash # <<>>
                     /\ getElementById(slice1(url.hash)) = "null"
              bareHash ==
                  /\ ~ev.defaultPrevented
                  /\ ev.button \in {"undefined", "0"}
                  /\ ev.modifier = "none"
                  /\ ev.onLink
                  /\ ev.href = <<"#">>
                  /\ ev.smooth # "false"
          IN  /\ leftAlone =>
                    /\ last'.ret = "undefined"
                    /\ scroll' = scroll
                    /\ UNCHANGED <<revealedSet, revealedPrev, tabindex, timers>>
              /\ bareHash =>
                    /\ last'.ret = "defaultPrevented"
                    /\ scroll'.op = "top" /\ scroll'.top = 0
                    /\ UNCHANGED <<revealedSet, revealedPrev, tabindex, timers>>
      ]_vars

\* C38: from the closed nav the markup gives, whatever toggle clicks,
\* keydowns and document clicks have been handled, the four open indicators
\* agree: the open class on the body, aria-expanded "true" on the toggle,
\* aria-expanded "true" on the nav, the nav's is-open class.  While the nav
\* is closed an Escape keydown or a click outside changes nothing; while it
\* is open they close it (all four indicators), and a click inside the nav
\* or another key leaves it open.
C38_NavIndicatorsAgree ==
    /\ nav.bodyOpen <=> nav.toggleExpanded = "true"
    /\ nav.bodyOpen <=> nav.navExpanded = "true"
    /\ nav.bodyOpen <=> nav.isOpen
    /\ ~nav.bodyOpen =>
          /\ \A key \in {"Escape", "Enter"} : dispatchKeydown(Cur, key) = Cur
          /\ \A where \in {"nav", "outside"} :
                dispatchOtherClick(Cur, where) = Cur
    /\ ( /\ nav.bodyOpen
         /\ Subscribed(Cur, "document", "keydown", "onDocumentKey")
         /\ Subscribed(Cur, "document", "click", "onDocumentClick") ) =>
          /\ dispatchKeydown(Cur, "Escape") = closeNav(Cur)
          /\ dispatchOtherClick(Cur, "outside") = closeNav(Cur)
          /\ dispatchKeydown(Cur, "Enter") = Cur
          /\ dispatchOtherClick(Cur, "nav") = Cur
          /\ LET n == closeNav(Cur).nav
             IN  /\ ~n.bodyOpen /\ ~n.isOpen
                 /\ n.toggleExpanded = "false" /\ n.navExpanded = "false"

C38_Witness ==
    /\ last.op = "event"
    /\ nav.bodyOpen /\ nav.isOpen
    /\ nav.toggleExpanded = "true" /\ nav.navExpanded = "true"
    /\ Subscribed(Cur, "document", "keydown", "onDocumentKey")
    /\ Subscribed(Cur, "document", "click", "onDocumentClick")
    /\ ~dispatchKeydown(Cur, "Escape").nav.isOpen

\* C39: in every reachable state _revealedSet holds exactly the elements
\* that have an entry in _revealedPrevTabIndex.
C39_SetMatchesMap ==
    revealedSet = { el \in Elems : revealedPrev[el] # "undefined" }

C39_Witness ==
    /\ last.op = "timer"
    /\ last.el = "e1"
    /\ revealedSet = {"e2"}
    /\ revealedPrev["e1"] = "undefined"
    /\ revealedPrev["e2"] = "null"
    /\ written = {"e2"}

====
